---- MODULE Spec2Model ----
(***************************************************************************)
(* Record linkage of a master and a source key column through a semantic   *)
(* matching oracle: SemanticMatcher.matchValues.  The repository holds two *)
(* implementations of the class:                                           *)
(*   "matcher_ts" - src/src/providers/spreadsheet/matcher.ts               *)
(*                  (the oracle sorts its reply into matches / unmatched)  *)
(*   "part_003"   - src/unnamed/part_003                                   *)
(*                  (normalize-to-master: one judgment per source value)   *)
(* One run of matchValues is modelled: the chunking of the source list,    *)
(* the waves of concurrent oracle calls, the reconciliation of each reply  *)
(* and the merge of the chunk results.                                     *)
(*                                                                         *)
(* Around it, one call of the tool spreadsheet_transfer_data               *)
(* (src/src/tools/spreadsheet-tools.ts, which holds two definitions of the *)
(* handler: the first goes with matcher.ts, the second with part_003) and  *)
(* the coordinate resolver and table writer of GoogleSheetsClient          *)
(* (src/src/providers/spreadsheet/google-client.ts).                       *)
(***************************************************************************)
EXTENDS Integers, Sequences, FiniteSets, TLC

VARIABLES
    variant,              \* which SemanticMatcher implementation runs
    masterValues,         \* argument: master key records {value, rowIndex}
    sourceValues,         \* argument: source key records {value, rowIndex}
    confidenceThreshold,  \* argument: threshold, in hundredths
    options,              \* the caller's operation parameters batchSize, concurrencyLimit
    pc,                   \* "idle", "waiting" (await Promise.all), "done", "rejected"
    chunks,               \* chunks / batchDefinitions, in order
    i,                    \* loop variable of the wave loop (0-based chunk index)
    status,               \* per chunk: "pending", "inflight", "resolved", "failed"
    replied,              \* per chunk: <<>> or <<the parsed reply of its oracle call>>
    results,              \* per chunk: what its promise resolved with
    sent,                 \* the oracle calls issued so far, in issue order
    allMatches,           \* matchValues' accumulator
    allUnmatched,         \* matchValues' accumulator
    returned,             \* <<>> until matchValues returns, then <<result>>
    input,                \* the tool input of spreadsheet_transfer_data
    masterSheet,          \* the cells of the master sheet, row by row
    sourceSheet,          \* the cells of the source sheet, row by row
    hpc,                  \* the handler: "none", "called", "matching", "planning",
                          \* "planned", "written", "returned", "failed"
    locals,               \* the handler's local variables held across its awaits
    reads,                \* the Table Reader calls issued so far, in issue order
    mappings,             \* the handler's local `mappings`
    updates,              \* the handler's local `updates`
    written,              \* the batchUpdate requests issued, each with its `data`
    result,               \* <<>> until the handler returns, then <<TransferResult>>
    arg,                  \* the argument of a coordinate resolver call
    answer,               \* the resolver functions applied to it, with their values
    earlier               \* <<>>, or <<the replies and the result of an earlier run>>

matcherVars == <<variant, masterValues, sourceValues, confidenceThreshold, options, pc,
                 chunks, i, status, replied, results, sent, allMatches, allUnmatched,
                 returned>>

transferVars == <<input, masterSheet, sourceSheet, hpc, locals, reads, mappings,
                  updates, written, result>>

resolverVars == <<arg, answer>>

vars == <<matcherVars, transferVars, resolverVars, earlier>>

----------------------------------------------------------------------------
(* Bounds of the model *)

MaxMaster == 2       \* longest master key list of the reconciliation runs
MaxSource == 2       \* longest source key list of the reconciliation runs
MaxReply == 2        \* most judgments in one oracle reply
MaxWaveSource == 5   \* longest source key list of the scheduling runs
MaxBatch == 2        \* largest batchSize a caller passes in the scheduling runs
MaxConcurrency == 2  \* largest concurrencyLimit a caller asks for

(* Program constants *)

BATCH_SIZE == 20
CONCURRENCY_LIMIT == 50
CONCURRENCY_LIMIT_MATCHER == 3
DefaultBatchSize == 60

Variants == {"matcher_ts", "part_003"}

(* JSON null / JavaScript undefined *)
Null == "<null>"

(* Key cells of the two sheets.  "a" and "A" differ only in case. *)
MasterKeys == {"a", "A"}
SourceKeys == {"x", "y"}

(* Confidences and thresholds, in hundredths *)
Confidences == {45, 80}
Thresholds == {50, 80}

(* The 1-based sheet row of the p-th key cell: the master table has its header
   in row 1, the source key column is read from row 4 on. *)
MasterRow(p) == p + 1
SourceRow(p) == p + 3

Min(a, b) == IF a <= b THEN a ELSE b

SeqsUpTo(S, n) == UNION {[1..k -> S] : k \in 0..n}

(* A slice that takes the element at `end` too. *)
SliceInclusive(arr, start, end) ==
    LET e == IF end + 1 <= Len(arr) THEN end + 1 ELSE Len(arr)
    IN  IF start >= e THEN <<>> ELSE [k \in 1..(e - start) |-> arr[start + k]]

(* Array.prototype.slice(start, end) on a 1-based TLA+ sequence: the elements
   at the 0-based positions start .. end-1, clipped to the array. *)
Slice(arr, start, end) ==
    LET e == Min(end, Len(arr))
    IN  IF start >= e THEN <<>> ELSE [k \in 1..(e - start) |-> arr[start + k]]

(* arr.find(r => r.value === value): the first record carrying the value, as
   a 0- or 1-element sequence (<<>> for undefined). *)
FindByValue(arr, value) ==
    LET hits == {k \in 1..Len(arr) : arr[k].value = value}
    IN  IF hits = {} THEN <<>>
        ELSE <<arr[CHOOSE k \in hits : \A h \in hits : k <= h]>>

----------------------------------------------------------------------------
(* Batch planner *)

(* The size of a chunk: the batchSize argument in matcher.ts, the local
   constant BATCH_SIZE in part_003 (which has no such parameter). *)
EffectiveBatchSize(v, opts) ==
    IF v = "matcher_ts" THEN opts.batchSize ELSE BATCH_SIZE

(* The width of a wave: a local constant in both implementations. *)
EffectiveConcurrency(v) ==
    IF v = "matcher_ts" THEN CONCURRENCY_LIMIT_MATCHER ELSE CONCURRENCY_LIMIT

(* for (let i = 0; i < sourceValues.length; i += b) chunks.push(slice(i, i + b)) *)
RECURSIVE ChunksFrom(_, _, _)
ChunksFrom(src, from, b) ==
    IF from < Len(src)
    THEN <<Slice(src, from, from + b)>> \o ChunksFrom(src, from + b, b)
    ELSE <<>>

SplitIntoChunks(src, b) == ChunksFrom(src, 0, b)

(* A wave one chunk wider than the limit. *)
WaveIndicesWide(n, from, limit) == {k \in 0..(n - 1) : from <= k /\ k <= from + limit}

(* chunks.slice(i, i + CONCURRENCY_LIMIT): the 0-based chunk indices of a wave *)
WaveIndices(n, from, limit) == {k \in 0..(n - 1) : from <= k /\ k < from + limit}

----------------------------------------------------------------------------
(* Oracle replies *)

(* part_003: LLMNormalizationResponse.normalizedItems, one NormalizedSourceItem
   per judgment.  normalizedToMaster is a master value, the empty string or
   null; nothing makes the oracle copy it from the master list. *)
NormalizedSourceItems ==
    [originalSourceValue : SourceKeys,
     normalizedToMaster  : MasterKeys \cup {"", Null},
     confidence          : Confidences]

(* matcher.ts: LLMResponse, the oracle itself sorts its judgments into
   matches (LLMMatch) and unmatched. *)
LLMMatches ==
    [masterValue : MasterKeys, sourceValue : SourceKeys, confidence : Confidences]

LLMUnmatched ==
    [sourceValue   : SourceKeys,
     reason        : {"oracle: no match"},
     bestCandidate : {<<>>, <<[value |-> "a", confidence |-> 45]>>}]

(* What JSON.parse(content) can be, up to MaxReply judgments. *)
Replies(v) ==
    IF v = "part_003"
    THEN {[normalizedItems |-> items] : items \in SeqsUpTo(NormalizedSourceItems, MaxReply)}
    ELSE UNION {
           {[matches |-> m, unmatched |-> u] :
               m \in [1..nm -> LLMMatches],
               u \in UNION {[1..nu -> LLMUnmatched] : nu \in 0..(MaxReply - nm)}} :
           nm \in 0..MaxReply}

----------------------------------------------------------------------------
(* Reconciliation engine *)

NoResult == [matches |-> <<>>, unmatched |-> <<>>]

(* JavaScript truthiness of a string-or-null *)
Truthy(s) == s # Null /\ s # ""

(* buildMasterValueMap: map.set(item.value, item.rowIndex) for each master
   record in order; a later record with the same value overwrites. *)
RECURSIVE MapSetAll(_, _, _)
MapSetAll(map, masters, k) ==
    IF k > Len(masters) THEN map
    ELSE MapSetAll((masters[k].value :> masters[k].rowIndex) @@ map, masters, k + 1)

buildMasterValueMap(masters) == MapSetAll(<<>>, masters, 1)

(* A lookup that folds case: "A" finds the entry of "a". *)
MapGetIgnoringCase(map, key) ==
    LET Lower(c) == IF c = "A" THEN "a" ELSE c
        hits == {k \in DOMAIN map : Lower(k) = Lower(key)}
    IN  IF hits = {} THEN <<>> ELSE <<map[CHOOSE k \in hits : TRUE]>>

(* masterValueMap.get(key): <<>> for undefined *)
MapGet(map, key) == IF key \in DOMAIN map THEN <<map[key]>> ELSE <<>>

(* part_003, the three pushes of the judgment loop.  Each is the sequence of
   items the branch appends. *)
MatchFound(item, sourceItem, masterRowIndex) ==
    <<[masterValue    |-> item.normalizedToMaster,
       sourceValue    |-> item.originalSourceValue,
       confidence     |-> item.confidence,
       masterRowIndex |-> masterRowIndex,
       sourceRowIndex |-> sourceItem.rowIndex]>>

MasterNotFoundDropped(item, sourceItem) == <<>>

MasterNotFound(item, sourceItem) ==
    <<[sourceValue    |-> item.originalSourceValue,
       sourceRowIndex |-> sourceItem.rowIndex,
       reason         |-> "not found in master list",
       bestCandidate  |-> <<[value      |-> item.normalizedToMaster,
                             confidence |-> item.confidence]>>]>>

NotAcceptedWithoutCandidate(item, sourceItem) ==
    <<[sourceValue    |-> item.originalSourceValue,
       sourceRowIndex |-> sourceItem.rowIndex,
       reason         |-> IF Truthy(item.normalizedToMaster)
                          THEN "below threshold"
                          ELSE "No matching master value",
       bestCandidate  |-> <<>>]>>

NotAccepted(item, sourceItem) ==
    <<[sourceValue    |-> item.originalSourceValue,
       sourceRowIndex |-> sourceItem.rowIndex,
       reason         |-> IF Truthy(item.normalizedToMaster)
                          THEN "below threshold"
                          ELSE "No matching master value",
       bestCandidate  |-> IF Truthy(item.normalizedToMaster)
                          THEN <<[value      |-> item.normalizedToMaster,
                                  confidence |-> item.confidence]>>
                          ELSE <<>>]>>

(* part_003, one iteration of `for (const item of llmResult.normalizedItems)`:
   what the iteration pushes to batchMatches and batchUnmatched. *)
ProcessItem(item, sourceBatch, masterValueMap, threshold) ==
    LET sourceItem == FindByValue(sourceBatch, item.originalSourceValue)
        masterRowIndex == MapGet(masterValueMap, item.normalizedToMaster)
    IN  IF sourceItem = <<>> THEN NoResult
        ELSE IF Truthy(item.normalizedToMaster) /\ item.confidence >= threshold
        THEN IF masterRowIndex # <<>>
             THEN [matches   |-> MatchFound(item, sourceItem[1], masterRowIndex[1]),
                   unmatched |-> <<>>]
             ELSE [matches   |-> <<>>,
                   unmatched |-> MasterNotFound(item, sourceItem[1])]
        ELSE [matches   |-> <<>>,
              unmatched |-> NotAccepted(item, sourceItem[1])]

(* A judgment loop that binds the k-th judgment to the k-th record. *)
RECURSIVE ProcessItemsByPosition(_, _, _, _, _)
ProcessItemsByPosition(items, k, sourceBatch, masterValueMap, threshold) ==
    IF k > Len(items) THEN NoResult
    ELSE LET head == ProcessItem(items[k],
                                 IF k > Len(sourceBatch) THEN <<>>
                                 ELSE <<[value    |-> items[k].originalSourceValue,
                                         rowIndex |-> sourceBatch[k].rowIndex]>>,
                                 masterValueMap, threshold)
             rest == ProcessItemsByPosition(items, k + 1, sourceBatch, masterValueMap,
                                            threshold)
         IN  [matches   |-> head.matches \o rest.matches,
              unmatched |-> head.unmatched \o rest.unmatched]

RECURSIVE ProcessItems(_, _, _, _, _)
ProcessItems(items, k, sourceBatch, masterValueMap, threshold) ==
    IF k > Len(items) THEN NoResult
    ELSE LET head == ProcessItem(items[k], sourceBatch, masterValueMap, threshold)
             rest == ProcessItems(items, k + 1, sourceBatch, masterValueMap, threshold)
         IN  [matches   |-> head.matches \o rest.matches,
              unmatched |-> head.unmatched \o rest.unmatched]

(* part_003, "Check if all source items were processed": the records whose
   value is not among the reply's originalSourceValue, in batch order. *)
RECURSIVE NotProcessed(_, _, _)
NotProcessed(sourceBatch, k, processedSourceValues) ==
    IF k > Len(sourceBatch) THEN <<>>
    ELSE (IF sourceBatch[k].value \in processedSourceValues THEN <<>>
          ELSE <<[sourceValue    |-> sourceBatch[k].value,
                  sourceRowIndex |-> sourceBatch[k].rowIndex,
                  reason         |-> "Not processed by LLM",
                  bestCandidate  |-> <<>>]>>)
         \o NotProcessed(sourceBatch, k + 1, processedSourceValues)

(* part_003: what processBatch resolves with for one parsed reply. *)
processBatch(reply, sourceBatch, masters, threshold) ==
    LET items == reply.normalizedItems
        looped == ProcessItems(items, 1, sourceBatch, buildMasterValueMap(masters), threshold)
        processedSourceValues == {items[k].originalSourceValue : k \in 1..Len(items)}
    IN  [matches   |-> looped.matches,
         unmatched |-> looped.unmatched \o NotProcessed(sourceBatch, 1, processedSourceValues)]

(* matcher.ts: result.matches.map(...).filter(m => m !== null) *)
RECURSIVE MapMatches(_, _, _, _)
MapMatches(ms, k, chunk, masters) ==
    IF k > Len(ms) THEN <<>>
    ELSE LET match == ms[k]
             masterItem == FindByValue(masters, match.masterValue)
             sourceItem == FindByValue(chunk, match.sourceValue)
         IN  (IF masterItem = <<>> \/ sourceItem = <<>> THEN <<>>
              ELSE <<[masterValue    |-> match.masterValue,
                      sourceValue    |-> match.sourceValue,
                      confidence     |-> match.confidence,
                      masterRowIndex |-> masterItem[1].rowIndex,
                      sourceRowIndex |-> sourceItem[1].rowIndex]>>)
             \o MapMatches(ms, k + 1, chunk, masters)

(* matcher.ts: result.unmatched.map(...) *)
MapUnmatched(us, chunk) ==
    [k \in 1..Len(us) |->
        LET sourceItem == FindByValue(chunk, us[k].sourceValue)
        IN  [sourceValue    |-> us[k].sourceValue,
             sourceRowIndex |-> IF sourceItem = <<>> THEN -1 ELSE sourceItem[1].rowIndex,
             reason         |-> us[k].reason,
             bestCandidate  |-> us[k].bestCandidate]]

(* matcher.ts: what the chunk's promise resolves with for one parsed reply. *)
MapChunkResult(reply, chunk, masters) ==
    [matches   |-> MapMatches(reply.matches, 1, chunk, masters),
     unmatched |-> MapUnmatched(reply.unmatched, chunk)]

Reconcile(v, reply, chunk, masters, threshold) ==
    IF v = "part_003" THEN processBatch(reply, chunk, masters, threshold)
    ELSE MapChunkResult(reply, chunk, masters)

----------------------------------------------------------------------------
(* One run of matchValues *)

(* Key records as the transfer handler builds them: the p-th cell of the key
   column with its sheet row. *)
MasterRecords(values) ==
    [p \in 1..Len(values) |-> [value |-> values[p], rowIndex |-> MasterRow(p)]]

SourceRecords(values) ==
    [p \in 1..Len(values) |-> [value |-> values[p], rowIndex |-> SourceRow(p)]]

(* TransferOptionsSchema: batchSize defaults to 60; the schema has no
   concurrencyLimit key (0: the caller gave none). *)
DefaultOptions == [batchSize |-> DefaultBatchSize, concurrencyLimit |-> 0]

Idle ==
    /\ pc = "idle"
    /\ chunks = <<>>
    /\ i = 0
    /\ status = <<>>
    /\ replied = <<>>
    /\ results = <<>>
    /\ sent = <<>>
    /\ allMatches = <<>>
    /\ allUnmatched = <<>>
    /\ returned = <<>>
    /\ earlier = <<>>

(* matchValues called directly: no tool call around it *)
NoTransfer ==
    /\ input = <<>>
    /\ masterSheet = <<>>
    /\ sourceSheet = <<>>
    /\ hpc = "none"
    /\ locals = <<>>
    /\ reads = <<>>
    /\ mappings = <<>>
    /\ updates = <<>>
    /\ written = <<>>
    /\ result = <<>>

(* No coordinate resolver call on its own *)
NoResolverCall ==
    /\ arg = <<>>
    /\ answer = <<>>

(* Reconciliation runs: every short master and source list, any reply. *)
Init ==
    /\ variant \in Variants
    /\ masterValues \in {MasterRecords(m) : m \in SeqsUpTo(MasterKeys, MaxMaster)}
    /\ sourceValues \in {SourceRecords(s) : s \in SeqsUpTo(SourceKeys, MaxSource)}
    /\ confidenceThreshold \in Thresholds
    /\ options = DefaultOptions
    /\ Idle
    /\ NoTransfer
    /\ NoResolverCall

(* A wave that sends every chunk of its range a second time. *)
WaveCallsRetried(cs, from, limit) ==
    [k \in 1..(2 * Cardinality(WaveIndices(Len(cs), from, limit))) |->
        [batchIndex  |-> from + ((k - 1) % Cardinality(WaveIndices(Len(cs), from, limit))),
         sourceBatch |-> cs[from + 1 + ((k - 1) % Cardinality(WaveIndices(Len(cs), from, limit)))]]]

(* The oracle calls of the wave that starts at chunk index `from`: every
   processBatch of the wave runs up to its await, in chunk order. *)
WaveCalls(cs, from, limit) ==
    [k \in 1..Cardinality(WaveIndices(Len(cs), from, limit)) |->
        [batchIndex |-> from + k - 1, sourceBatch |-> cs[from + k]]]

(* A list kept on the SemanticMatcher between calls. *)
InstanceList(left) == left

(* const allMatches = [] / const allUnmatched = [] inside matchValues: a
   list of the call, empty whatever an earlier call left behind *)
LocalList(left) == <<>>

(* The synchronous start of matchValues: split the source list, then enter
   the wave loop, which issues the first wave and awaits it; with no chunk
   the loop is skipped and the empty result is returned. *)
RunStarts ==
    /\ LET cs == SplitIntoChunks(sourceValues, EffectiveBatchSize(variant, options))
           n == Len(cs)
           limit == EffectiveConcurrency(variant)
       IN  /\ chunks' = cs
           /\ i' = 0
           /\ replied' = [k \in 0..(n - 1) |-> <<>>]
           /\ results' = [k \in 0..(n - 1) |-> NoResult]
           /\ allMatches' = LocalList(allMatches)
           /\ allUnmatched' = LocalList(allUnmatched)
           /\ IF n = 0
              THEN /\ pc' = "done"
                   /\ status' = <<>>
                   /\ sent' = <<>>
                   /\ returned' = <<[matches   |-> LocalList(allMatches),
                                     unmatched |-> LocalList(allUnmatched)]>>
              ELSE /\ pc' = "waiting"
                   /\ status' = [k \in 0..(n - 1) |->
                                   IF k \in WaveIndices(n, 0, limit) THEN "inflight"
                                   ELSE "pending"]
                   /\ sent' = WaveCalls(cs, 0, limit)
                   /\ returned' = <<>>
    /\ UNCHANGED <<variant, masterValues, sourceValues, confidenceThreshold, options>>
    /\ UNCHANGED <<transferVars, resolverVars>>

(* matchValues is called *)
MatchValuesStart ==
    /\ pc = "idle"
    /\ RunStarts
    /\ UNCHANGED earlier

(* The continuation of one oracle call whose reply parses: the chunk's
   promise resolves with the reconciled reply.  After matchValues has
   rejected, calls still in flight run on and their results go nowhere. *)
Resolve(k, reply) ==
    /\ status[k] = "inflight"
    /\ status' = [status EXCEPT ![k] = "resolved"]
    /\ replied' = [replied EXCEPT ![k] = <<reply>>]
    /\ results' = [results EXCEPT ![k] =
                      Reconcile(variant, reply, chunks[k + 1], masterValues,
                                confidenceThreshold)]
    /\ UNCHANGED <<variant, masterValues, sourceValues, confidenceThreshold, options,
                   pc, chunks, i, sent, allMatches, allUnmatched, returned>>
    /\ UNCHANGED <<transferVars, resolverVars, earlier>>

InFlight == {k \in DOMAIN status : status[k] = "inflight"}

OracleReturns ==
    \E k \in InFlight : \E reply \in Replies(variant) : Resolve(k, reply)

(* An oracle call errors, or its reply is empty or does not parse: the
   chunk's promise rejects, Promise.all rejects on the first rejection and
   matchValues rejects with it. *)
OracleFails ==
    \E k \in InFlight :
        /\ status[k] = "inflight"
        /\ status' = [status EXCEPT ![k] = "failed"]
        /\ pc' = IF pc = "waiting" THEN "rejected" ELSE pc
        /\ UNCHANGED <<variant, masterValues, sourceValues, confidenceThreshold,
                       options, chunks, i, replied, results, sent, allMatches,
                       allUnmatched, returned>>
        /\ UNCHANGED <<transferVars, resolverVars, earlier>>

(* The matches of the chunks from..to appended last chunk first. *)
RECURSIVE MergeMatchesBackwards(_, _, _)
MergeMatchesBackwards(res, from, to) ==
    IF from > to THEN <<>> ELSE res[to].matches \o MergeMatchesBackwards(res, from, to - 1)

(* results.forEach(res => push(...res.matches / ...res.unmatched)) over the
   chunks from..to of the wave, in chunk order *)
RECURSIVE MergeMatches(_, _, _)
MergeMatches(res, from, to) ==
    IF from > to THEN <<>> ELSE res[from].matches \o MergeMatches(res, from + 1, to)

RECURSIVE MergeUnmatched(_, _, _)
MergeUnmatched(res, from, to) ==
    IF from > to THEN <<>> ELSE res[from].unmatched \o MergeUnmatched(res, from + 1, to)

(* A wave that goes on as soon as every call has settled, failed or not. *)
PromiseAllSettled ==
    /\ pc \in {"waiting", "rejected"}
    /\ \A k \in WaveIndices(Len(chunks), i, EffectiveConcurrency(variant)) :
          status[k] \in {"resolved", "failed"}

(* `await Promise.all(...)` of the current wave hands over its results: the
   loop is still waiting and every promise of the wave has resolved.  After
   a rejection the await has thrown and nothing resumes the loop. *)
PromiseAllResolves ==
    /\ pc = "waiting"
    /\ \A k \in WaveIndices(Len(chunks), i, EffectiveConcurrency(variant)) :
          status[k] = "resolved"

(* Promise.all of the current wave resolves: the wave's results are appended
   and the loop goes on, issuing the next wave or returning. *)
WaveDone ==
    /\ PromiseAllResolves
    /\ LET n == Len(chunks)
           limit == EffectiveConcurrency(variant)
           last == Min(i + limit, n) - 1
           matches == allMatches \o MergeMatches(results, i, last)
           unmatched == allUnmatched \o MergeUnmatched(results, i, last)
       IN  /\ allMatches' = matches
           /\ allUnmatched' = unmatched
           /\ i' = i + limit
           /\ IF i + limit < n
              THEN /\ pc' = "waiting"
                   /\ status' = [k \in 0..(n - 1) |->
                                   IF k \in WaveIndices(n, i + limit, limit)
                                   THEN "inflight" ELSE status[k]]
                   /\ sent' = sent \o WaveCalls(chunks, i + limit, limit)
                   /\ returned' = <<>>
              ELSE /\ pc' = "done"
                   /\ status' = status
                   /\ sent' = sent
                   /\ returned' = <<[matches |-> matches, unmatched |-> unmatched]>>
    /\ UNCHANGED <<variant, masterValues, sourceValues, confidenceThreshold, options,
                   chunks, replied, results>>
    /\ UNCHANGED <<transferVars, resolverVars, earlier>>

Next == MatchValuesStart \/ OracleReturns \/ OracleFails \/ WaveDone

Spec == Init /\ [][Next]_vars

----------------------------------------------------------------------------
(* Repeated runs: matchValues is called a second time on the same
   SemanticMatcher with the arguments of a run that has returned, and the
   oracle answers each chunk as it did in that run. *)

MatchValuesAgain ==
    /\ pc = "done"
    /\ earlier = <<>>
    /\ earlier' = <<[replied |-> replied, returned |-> returned[1]]>>
    /\ RunStarts

(* An oracle call of the first run returns *)
FirstOracleReturns == earlier = <<>> /\ OracleReturns

(* An oracle call of the second run returns the reply its chunk had in the
   first run *)
OracleRepeats ==
    /\ earlier # <<>>
    /\ \E k \in InFlight : Resolve(k, earlier[1].replied[k][1])

NextAgain ==
    \/ MatchValuesStart
    \/ FirstOracleReturns
    \/ OracleFails
    \/ WaveDone
    \/ MatchValuesAgain
    \/ OracleRepeats

SpecAgain == Init /\ [][NextAgain]_vars

----------------------------------------------------------------------------
(* Scheduling runs: longer source lists, one reply per chunk.  The second
   source length gives part_003, whose chunks hold BATCH_SIZE records, more
   than one chunk. *)

WaveSourceLengths == (0..MaxWaveSource) \cup {2 * BATCH_SIZE + 1}

WaveSource(n) == SourceRecords([p \in 1..n |-> IF p % 2 = 1 THEN "x" ELSE "y"])

(* The reply of an oracle that judges every source value of the chunk once,
   in order, proposing master key "a" with confidence 0.80. *)
FaithfulReply(v, chunk) ==
    IF v = "part_003"
    THEN [normalizedItems |->
            [p \in 1..Len(chunk) |-> [originalSourceValue |-> chunk[p].value,
                                      normalizedToMaster  |-> "a",
                                      confidence          |-> 80]]]
    ELSE [matches |->
            [p \in 1..Len(chunk) |-> [masterValue |-> "a",
                                      sourceValue |-> chunk[p].value,
                                      confidence  |-> 80]],
          unmatched |-> <<>>]

InitWave ==
    /\ variant \in Variants
    /\ masterValues = MasterRecords(<<"a">>)
    /\ sourceValues \in {WaveSource(n) : n \in WaveSourceLengths}
    /\ confidenceThreshold = 80
    /\ options \in [batchSize : 1..MaxBatch, concurrencyLimit : 1..MaxConcurrency]
    /\ Idle
    /\ NoTransfer
    /\ NoResolverCall

OracleAnswers ==
    \E k \in InFlight : Resolve(k, FaithfulReply(variant, chunks[k + 1]))

NextWave == MatchValuesStart \/ OracleAnswers \/ OracleFails \/ WaveDone

SpecWave == InitWave /\ [][NextWave]_vars

(* The scheduling runs in which every issued oracle call eventually returns
   or fails, and the event loop eventually runs the continuation of a
   settled Promise.all. *)
SpecWaveFair ==
    /\ InitWave
    /\ [][NextWave]_vars
    /\ WF_vars(OracleFails \/ OracleAnswers)
    /\ WF_vars(WaveDone)

----------------------------------------------------------------------------
(* Coordinate resolver (GoogleSheetsClient).  Text the program takes apart
   character by character - column references, header names - is a sequence
   of one-character strings; the empty sequence is the empty string. *)

(* The characters of the model with their character codes: the letters,
   the digits, the space (32), the hyphen (45), the at sign (64) and the
   underscore (95). *)
UpperCaseLetters ==
    <<"A", "B", "C", "D", "E", "F", "G", "H", "I", "J", "K", "L", "M",
      "N", "O", "P", "Q", "R", "S", "T", "U", "V", "W", "X", "Y", "Z">>

LowerCaseLetters ==
    <<"a", "b", "c", "d", "e", "f", "g", "h", "i", "j", "k", "l", "m",
      "n", "o", "p", "q", "r", "s", "t", "u", "v", "w", "x", "y", "z">>

DecimalDigits == <<"0", "1", "2", "3", "4", "5", "6", "7", "8", "9">>

Position(seq, c) == CHOOSE k \in 1..Len(seq) : seq[k] = c

charCodeAt(c) ==
    IF \E k \in 1..26 : UpperCaseLetters[k] = c THEN 64 + Position(UpperCaseLetters, c)
    ELSE IF \E k \in 1..26 : LowerCaseLetters[k] = c THEN 96 + Position(LowerCaseLetters, c)
    ELSE IF \E k \in 1..10 : DecimalDigits[k] = c THEN 47 + Position(DecimalDigits, c)
    ELSE IF c = " " THEN 32
    ELSE IF c = "-" THEN 45
    ELSE IF c = "@" THEN 64
    ELSE 95

fromCharCode(n) ==
    IF n >= 65 /\ n <= 90 THEN UpperCaseLetters[n - 64]
    ELSE IF n >= 97 /\ n <= 122 THEN LowerCaseLetters[n - 96]
    ELSE IF n >= 48 /\ n <= 57 THEN DecimalDigits[n - 47]
    ELSE IF n = 32 THEN " "
    ELSE IF n = 45 THEN "-"
    ELSE IF n = 64 THEN "@"
    ELSE "_"

toUpperCase(str) ==
    [k \in 1..Len(str) |->
        LET n == charCodeAt(str[k])
        IN  IF n >= 97 /\ n <= 122 THEN fromCharCode(n - 32) ELSE str[k]]

toLowerCase(str) ==
    [k \in 1..Len(str) |->
        LET n == charCodeAt(str[k])
        IN  IF n >= 65 /\ n <= 90 THEN fromCharCode(n + 32) ELSE str[k]]

(* String.prototype.trim: the space is the only white space of the model *)
RECURSIVE trim(_)
trim(str) ==
    IF str = <<>> THEN <<>>
    ELSE IF str[1] = " " THEN trim(Tail(str))
    ELSE IF str[Len(str)] = " " THEN trim(SubSeq(str, 1, Len(str) - 1))
    ELSE str

IsUpperLetter(c) == charCodeAt(c) >= 65 /\ charCodeAt(c) <= 90

IsDigit(c) == charCodeAt(c) >= 48 /\ charCodeAt(c) <= 57

(* How many characters at the head of str, up to `most`, are letters A-Z *)
RECURSIVE LeadingLetters(_, _)
LeadingLetters(str, most) ==
    IF str = <<>> \/ most = 0 \/ ~IsUpperLetter(str[1]) THEN 0
    ELSE 1 + LeadingLetters(Tail(str), most - 1)

(* parseInt(digits, 10) of a string of decimal digits *)
RECURSIVE parseInt(_)
parseInt(digits) ==
    IF digits = <<>> THEN 0
    ELSE 10 * parseInt(SubSeq(digits, 1, Len(digits) - 1))
           + (charCodeAt(digits[Len(digits)]) - 48)

(* The two groups of the cell pattern in a text with n leading letters *)
SplitCell(trimmed, n) ==
    IF /\ n >= 1
       /\ n < Len(trimmed)
       /\ \A k \in (n + 1)..Len(trimmed) : IsDigit(trimmed[k])
    THEN <<[letters |-> SubSeq(trimmed, 1, n),
            digits  |-> SubSeq(trimmed, n + 1, Len(trimmed))]>>
    ELSE <<>>

(* trimmed.match(/^([A-Z]{1,3})(\d+)$/): <<>> for no match, else the two
   groups.  The letters group is greedy and takes up to three letters; what
   follows must be one or more digits up to the end. *)
MatchCell(trimmed) == SplitCell(trimmed, LeadingLetters(trimmed, 3))

(* /^[A-Z]{1,3}$/.test(upper) *)
MatchColumn(upper) ==
    /\ Len(upper) >= 1
    /\ Len(upper) <= 3
    /\ \A k \in 1..Len(upper) : IsUpperLetter(upper[k])

(* A parser that lets row 0 through. *)
CellOfRowFromZero(match, row) ==
    IF match = <<>> THEN <<>> ELSE <<[column |-> match[1].letters, row |-> row]>>

(* parseCellCoordinate after the match: column = match[1], row =
   parseInt(match[2], 10), null for a row below 1 *)
CellOfRow(match, row) ==
    IF match = <<>> THEN <<>>
    ELSE IF row < 1 THEN <<>>
    ELSE <<[column |-> match[1].letters, row |-> row]>>

CellOfMatch(match) ==
    CellOfRow(match, IF match = <<>> THEN 0 ELSE parseInt(match[1].digits))

(* parseCellCoordinate: <<>> for null, else <<{column, row}>> *)
parseCellCoordinate(cellRef) ==
    IF cellRef = <<>> THEN <<>> ELSE CellOfMatch(MatchCell(toUpperCase(trim(cellRef))))

(* A test that takes cell references only, no bare column letters. *)
TestCoordinateOfCells(upperColumn) == parseCellCoordinate(upperColumn) # <<>>

(* isCoordinate after upperColumn = column.toUpperCase().trim() *)
TestCoordinate(upperColumn) ==
    IF parseCellCoordinate(upperColumn) # <<>> THEN TRUE
    ELSE IF Len(upperColumn) > 3 THEN FALSE
    ELSE MatchColumn(upperColumn)

isCoordinate(column) ==
    IF column = <<>> THEN FALSE ELSE TestCoordinate(trim(toUpperCase(column)))

(* extractColumnFromCoordinate / extractRowFromCoordinate: <<>> where the
   code throws 'Invalid coordinate format' *)
ColumnOrLetters(cellRef, upper) ==
    IF cellRef # <<>> THEN <<cellRef[1].column>>
    ELSE IF MatchColumn(upper) THEN <<upper>>
    ELSE <<>>

extractColumnFromCoordinate(coordinate) ==
    ColumnOrLetters(parseCellCoordinate(coordinate), trim(toUpperCase(coordinate)))

RowOrFirst(cellRef, upper) ==
    IF cellRef # <<>> THEN <<cellRef[1].row>>
    ELSE IF MatchColumn(upper) THEN <<1>>
    ELSE <<>>

extractRowFromCoordinate(coordinate) ==
    RowOrFirst(parseCellCoordinate(coordinate), trim(toUpperCase(coordinate)))

(* The loop of columnToIndex over the first n characters *)
RECURSIVE ColumnValue(_, _)
ColumnValue(upperColumn, n) ==
    IF n = 0 THEN 0
    ELSE ColumnValue(upperColumn, n - 1) * 26 + (charCodeAt(upperColumn[n]) - 64)

(* A conversion that counts the letters from 0 (A = 0) in every position. *)
columnToIndexBase26(column) ==
    LET upperColumn == toUpperCase(column)
        Digits(n) == [k \in 1..n |-> charCodeAt(upperColumn[k]) - 65]
        Value[n \in 0..Len(column)] ==
            IF n = 0 THEN 0 ELSE Value[n - 1] * 26 + Digits(n)[n]
    IN  Value[Len(column)]

columnToIndex(column) == ColumnValue(toUpperCase(column), Len(column)) - 1

(* JavaScript's %, whose result has the sign of the dividend *)
Remainder(a, b) == IF a >= 0 THEN a % b ELSE 0 - ((0 - a) % b)

(* columnIndexToLetter: the do-while loop, entered with i and result *)
RECURSIVE LetterLoop(_, _)
LetterLoop(idx, res) ==
    LET res2 == <<fromCharCode(65 + Remainder(idx, 26))>> \o res
        next == (idx \div 26) - 1
    IN  IF next >= 0 THEN LetterLoop(next, res2) ELSE res2

columnIndexToLetter(index) == LetterLoop(index, <<>>)

indexToColumn(index) == columnIndexToLetter(index)

----------------------------------------------------------------------------
(* Properties of the reconciliation (specification Spec) *)

Elems(seq) == {seq[k] : k \in 1..Len(seq)}

MasterUniverse == {masterValues[p].value : p \in 1..Len(masterValues)}

(* The source values a reply carries a judgment for *)
JudgedValues(v, reply) ==
    IF v = "part_003"
    THEN {it.originalSourceValue : it \in Elems(reply.normalizedItems)}
    ELSE {m.sourceValue : m \in Elems(reply.matches)}
         \cup {u.sourceValue : u \in Elems(reply.unmatched)}

(* The items of the returned lists that carry the sheet row `row` *)
MatchesOfRow(row) ==
    Cardinality({k \in 1..Len(returned[1].matches) :
                    returned[1].matches[k].sourceRowIndex = row})

UnmatchedOfRow(row) ==
    Cardinality({k \in 1..Len(returned[1].unmatched) :
                    returned[1].unmatched[k].sourceRowIndex = row})

(* C1: after matchValues returns, every source key record that was passed
   in appears, by its sourceRowIndex, exactly once in matches and unmatched
   together, whatever the oracle replied and also when two records of a
   chunk carry the same value. *)
C1_EverySourceRecordExactlyOnce ==
    pc = "done" =>
        \A p \in 1..Len(sourceValues) :
            MatchesOfRow(sourceValues[p].rowIndex)
              + UnmatchedOfRow(sourceValues[p].rowIndex) = 1

(* C2: no returned MatchResult has a confidence below the threshold, in
   either implementation and whatever the oracle replied. *)
C2_NoMatchBelowThreshold ==
    pc = "done" =>
        \A m \in Elems(returned[1].matches) : m.confidence >= confidenceThreshold

(* C3: every returned MatchResult names, string for string, the value of a
   master key record that was passed in, and its masterRowIndex is the
   rowIndex of a master record carrying exactly that value. *)
C3_MatchNamesAMasterRecord ==
    pc = "done" =>
        \A m \in Elems(returned[1].matches) :
            \E p \in 1..Len(masterValues) :
                /\ masterValues[p].value = m.masterValue
                /\ masterValues[p].rowIndex = m.masterRowIndex

(* C3 witness: a run of the normalize-to-master matcher returned a match
   although its reply also proposed, at or above the threshold, a string
   that differs from every master key. *)
C3_Witness ==
    /\ pc = "done"
    /\ variant = "part_003"
    /\ returned[1].matches # <<>>
    /\ \E it \in Elems(replied[0][1].normalizedItems) :
          /\ Truthy(it.normalizedToMaster)
          /\ it.confidence >= confidenceThreshold
          /\ it.normalizedToMaster \notin MasterUniverse
          /\ it.originalSourceValue \in {r.value : r \in Elems(chunks[1])}

(* C4: a source record whose value no judgment of its chunk's reply names
   is returned as an UnmatchedItem with its value, its rowIndex and the
   'not processed' reason, in either implementation. *)
C4_DroppedRecordSurfaces ==
    pc = "done" =>
        \A k \in DOMAIN status : \A r \in Elems(chunks[k + 1]) :
            r.value \notin JudgedValues(variant, replied[k][1]) =>
                \E u \in Elems(returned[1].unmatched) :
                    /\ u.sourceValue = r.value
                    /\ u.sourceRowIndex = r.rowIndex
                    /\ u.reason = "Not processed by LLM"

(* C5: a MatchResult whose masterValue several master records carry has the
   rowIndex of the first of them in master-list order, in either
   implementation. *)
C5_FirstOccurrenceWins ==
    pc = "done" =>
        \A m \in Elems(returned[1].matches) :
            LET first == FindByValue(masterValues, m.masterValue)
            IN  first # <<>> /\ m.masterRowIndex = first[1].rowIndex

(* The record of chunk k a judgment on `value` is bound to: the first one
   carrying the value. *)
BoundRecord(k, value) == FindByValue(chunks[k + 1], value)

(* The judgments of chunk k's reply on `value` (part_003), as positions *)
JudgmentsOn(k, value) ==
    {q \in 1..Len(replied[k][1].normalizedItems) :
        replied[k][1].normalizedItems[q].originalSourceValue = value}

(* Every judgment of chunk k's reply other than the q-th that names a
   record of the chunk has an item for that record in the returned lists. *)
OthersReconciled(k, q) ==
    \A o \in 1..Len(replied[k][1].normalizedItems) :
        LET other == BoundRecord(k, replied[k][1].normalizedItems[o].originalSourceValue)
        IN  (o # q /\ other # <<>>) =>
                MatchesOfRow(other[1].rowIndex) + UnmatchedOfRow(other[1].rowIndex) >= 1

(* C6: (normalize-to-master matcher) when the oracle's judgment on a source
   record proposes, at or above the threshold, a non-empty string that
   equals no master key, matchValues returns; the record has exactly one
   UnmatchedItem, whose bestCandidate is the proposal with its confidence,
   and no MatchResult; the other judgments of the chunk are reconciled. *)
C6_UnknownMasterIsUnmatched ==
    (pc = "done" /\ variant = "part_003") =>
        \A k \in DOMAIN status : \A q \in 1..Len(replied[k][1].normalizedItems) :
            LET it == replied[k][1].normalizedItems[q]
                rec == BoundRecord(k, it.originalSourceValue)
            IN  ( /\ rec # <<>>
                  /\ JudgmentsOn(k, it.originalSourceValue) = {q}
                  /\ Truthy(it.normalizedToMaster)
                  /\ it.confidence >= confidenceThreshold
                  /\ it.normalizedToMaster \notin MasterUniverse ) =>
                    /\ UnmatchedOfRow(rec[1].rowIndex) = 1
                    /\ MatchesOfRow(rec[1].rowIndex) = 0
                    /\ \E u \in Elems(returned[1].unmatched) :
                          /\ u.sourceRowIndex = rec[1].rowIndex
                          /\ u.sourceValue = rec[1].value
                          /\ u.reason = "not found in master list"
                          /\ u.bestCandidate = <<[value      |-> it.normalizedToMaster,
                                                  confidence |-> it.confidence]>>
                    /\ OthersReconciled(k, q)

(* C6 witness: a returned run whose reply held an out-of-universe proposal
   at or above the threshold for one record and an accepted proposal for
   another record of the same chunk. *)
C6_Witness ==
    /\ pc = "done"
    /\ variant = "part_003"
    /\ returned[1].matches # <<>>
    /\ \E q \in 1..Len(replied[0][1].normalizedItems) :
          LET it == replied[0][1].normalizedItems[q]
          IN  /\ BoundRecord(0, it.originalSourceValue) # <<>>
              /\ JudgmentsOn(0, it.originalSourceValue) = {q}
              /\ Truthy(it.normalizedToMaster)
              /\ it.confidence >= confidenceThreshold
              /\ it.normalizedToMaster \notin MasterUniverse

(* C7: (normalize-to-master matcher) a judgment with a proposal whose
   confidence is below the threshold gives its record exactly one
   UnmatchedItem, with the below-threshold reason and the proposal and its
   confidence as bestCandidate; a judgment without a proposal (null, or the
   empty string, which JavaScript takes for none) gives exactly one
   UnmatchedItem with the no-matching-master-value reason and no
   bestCandidate. *)
C7_NotAcceptedIsUnmatched ==
    (pc = "done" /\ variant = "part_003") =>
        \A k \in DOMAIN status : \A q \in 1..Len(replied[k][1].normalizedItems) :
            LET it == replied[k][1].normalizedItems[q]
                rec == BoundRecord(k, it.originalSourceValue)
                judgedOnce == rec # <<>> /\ JudgmentsOn(k, it.originalSourceValue) = {q}
                item(reason, candidate) ==
                    [sourceValue    |-> rec[1].value,
                     sourceRowIndex |-> rec[1].rowIndex,
                     reason         |-> reason,
                     bestCandidate  |-> candidate]
                only(u) ==
                    /\ UnmatchedOfRow(rec[1].rowIndex) = 1
                    /\ MatchesOfRow(rec[1].rowIndex) = 0
                    /\ u \in Elems(returned[1].unmatched)
            IN  /\ ( /\ judgedOnce
                     /\ Truthy(it.normalizedToMaster)
                     /\ it.confidence < confidenceThreshold ) =>
                        only(item("below threshold",
                                  <<[value      |-> it.normalizedToMaster,
                                     confidence |-> it.confidence]>>))
                /\ (judgedOnce /\ ~Truthy(it.normalizedToMaster)) =>
                        only(item("No matching master value", <<>>))

(* C7 witness: a returned run whose reply judged one record with a proposal
   below the threshold and another record with no proposal. *)
C7_Witness ==
    /\ pc = "done"
    /\ variant = "part_003"
    /\ Len(chunks) = 1
    /\ Len(chunks[1]) = 2
    /\ chunks[1][1].value # chunks[1][2].value
    /\ Len(replied[0][1].normalizedItems) = 2
    /\ \E q, o \in 1..2 :
          LET low == replied[0][1].normalizedItems[q]
              none == replied[0][1].normalizedItems[o]
          IN  /\ low.originalSourceValue # none.originalSourceValue
              /\ Truthy(low.normalizedToMaster)
              /\ low.confidence < confidenceThreshold
              /\ none.normalizedToMaster = Null

----------------------------------------------------------------------------
(* Properties of the batch planner (specification SpecWave) *)

RECURSIVE Concat(_, _)
Concat(seqs, k) == IF k > Len(seqs) THEN <<>> ELSE seqs[k] \o Concat(seqs, k + 1)

(* C8: with N source records and chunk size b >= 1, the chunks are
   ceil(N/b) many, chunk k holds the records at the 0-based positions
   k*b .. min((k+1)*b, N)-1 in their order, none is empty, and the chunks
   concatenated in order are the source list. *)
C8_ChunksPartitionTheSource ==
    pc # "idle" =>
        LET b == EffectiveBatchSize(variant, options)
            N == Len(sourceValues)
        IN  /\ Len(chunks) = (N + b - 1) \div b
            /\ \A k \in 0..(Len(chunks) - 1) :
                  /\ Len(chunks[k + 1]) = Min((k + 1) * b, N) - k * b
                  /\ Len(chunks[k + 1]) >= 1
                  /\ \A j \in 1..Len(chunks[k + 1]) :
                        chunks[k + 1][j] = sourceValues[k * b + j]
            /\ Concat(chunks, 1) = sourceValues

(* C8 witness: a run split into at least three chunks whose last one is
   shorter than the chunk size. *)
C8_Witness ==
    /\ pc # "idle"
    /\ Len(chunks) >= 3
    /\ Len(chunks[Len(chunks)]) < EffectiveBatchSize(variant, options)
    /\ Len(chunks[1]) > 1

WaveOf(k) == k \div EffectiveConcurrency(variant)

(* C9: at every moment of a run at most as many oracle calls are in flight
   as the implementation's concurrency limit; a call of a wave is issued
   only when every call of every earlier wave has completed; each chunk is
   sent to the oracle once, with its own records, and a run that returns
   has had every chunk answered. *)
C9_WavesAreBoundedAndSequential ==
    /\ Cardinality(InFlight) <= EffectiveConcurrency(variant)
    /\ \A k \in DOMAIN status :
          /\ status[k] # "pending" =>
                \A j \in DOMAIN status : WaveOf(j) < WaveOf(k) => status[j] = "resolved"
          /\ Cardinality({c \in 1..Len(sent) : sent[c].batchIndex = k})
                = IF status[k] = "pending" THEN 0 ELSE 1
    /\ \A c \in Elems(sent) : c.sourceBatch = chunks[c.batchIndex + 1]
    /\ pc = "done" => \A k \in DOMAIN status : status[k] = "resolved"

(* C9 witness: a later wave is under way with as many calls in flight as
   the limit allows. *)
C9_Witness ==
    /\ pc = "waiting"
    /\ i > 0
    /\ Cardinality(InFlight) = EffectiveConcurrency(variant)

(* The matches and the unmatched items of the first n chunks, chunk by chunk *)
MatchesInChunkOrder(n) == Concat([k \in 1..n |-> results[k - 1].matches], 1)

UnmatchedInChunkOrder(n) == Concat([k \in 1..n |-> results[k - 1].unmatched], 1)

(* C29: the lists matchValues returns do not depend on the order in which
   the oracle calls of a wave complete: at every moment of a run the shared
   lists hold the outputs of the chunks of the waves already awaited, in
   chunk order, and nothing of a chunk whose wave is still awaited, however
   many of its calls have completed; the lists returned are the outputs of
   all chunks in chunk order, and each output is the reconciliation of that
   chunk's own reply. *)
C29_CompletionOrderDoesNotMatter ==
    pc # "idle" =>
        /\ allMatches = MatchesInChunkOrder(Min(i, Len(chunks)))
        /\ allUnmatched = UnmatchedInChunkOrder(Min(i, Len(chunks)))
        /\ \A k \in DOMAIN status :
              status[k] = "resolved" =>
                  results[k] = Reconcile(variant, replied[k][1], chunks[k + 1],
                                         masterValues, confidenceThreshold)
        /\ pc = "done" =>
              returned = <<[matches   |-> MatchesInChunkOrder(Len(chunks)),
                            unmatched |-> UnmatchedInChunkOrder(Len(chunks))]>>

(* C29 witness: a later call of the awaited wave has completed before an
   earlier one, and its output is in none of the shared lists. *)
C29_Witness ==
    /\ pc = "waiting"
    /\ i > 0
    /\ \E k, j \in DOMAIN status :
          /\ i <= k /\ k < j
          /\ status[k] = "inflight"
          /\ status[j] = "resolved"
          /\ results[j].matches # <<>>
          /\ \A m \in Elems(results[j].matches) : m \notin Elems(allMatches)

(* The oracle calls issued for the chunk of index k *)
CallsOf(k) == {c \in 1..Len(sent) : sent[c].batchIndex = k}

(* A run has ended: matchValues has returned or rejected *)
Ended == pc \in {"done", "rejected"}

(* The statement of C30 as it stands: a run that has ended, by a result or
   by a rejection, has issued exactly one oracle call for every chunk. *)
C30_OneCallPerChunkInEveryRun ==
    Ended => \A k \in 0..(Len(chunks) - 1) : Cardinality(CallsOf(k)) = 1

C30_CallsAreBounded ==
    pc # "idle" =>
        /\ \A c \in 1..Len(sent) : sent[c].batchIndex \in 0..(Len(chunks) - 1)
        /\ \A k \in 0..(Len(chunks) - 1) : Cardinality(CallsOf(k)) <= 1
        /\ pc = "done" => \A k \in 0..(Len(chunks) - 1) : Cardinality(CallsOf(k)) = 1
        /\ sourceValues = <<>> =>
              /\ pc = "done"
              /\ sent = <<>>
              /\ returned = <<[matches |-> <<>>, unmatched |-> <<>>]>>

(* C30, amended: for every source list and batch size >= 1 matchValues
   issues oracle calls for its chunks only and never two for one chunk; a
   run that returns has issued exactly one per chunk, a run that rejects
   has issued none for the chunks of the waves after the failed one; with
   an empty source list it issues none and returns empty matches and
   unmatched.  Provided every issued oracle call eventually returns or
   fails, a run eventually returns a result or rejects. *)
C30_BoundedCallsAndTermination ==
    /\ []C30_CallsAreBounded
    /\ (pc = "waiting") ~> Ended

(* C30 witness: a run of more than one wave has returned, with one oracle
   call per chunk. *)
C30_Witness ==
    /\ pc = "done"
    /\ Len(chunks) > EffectiveConcurrency(variant)
    /\ Len(sent) = Len(chunks)
    /\ \A k \in 0..(Len(chunks) - 1) : Cardinality(CallsOf(k)) = 1

(* C12: once an oracle call has failed, no further oracle call is issued
   (the calls of every later wave stay unissued) and matchValues never
   returns a result, although calls of the failed wave that were in flight
   may still resolve or fail. *)
C12_FailFast ==
    [][ (\E k \in DOMAIN status : status[k] = "failed") =>
            /\ sent' = sent
            /\ returned' = <<>>
            /\ \A k \in DOMAIN status : status[k] = "pending" => status'[k] = "pending"
      ]_vars

(* C12 witness: matchValues has rejected in its first wave; one call of the
   wave failed, another one resolved, and the chunks of the later wave were
   never sent. *)
C12_Witness ==
    /\ pc = "rejected"
    /\ i = 0
    /\ \E k, j, l \in DOMAIN status :
          /\ WaveOf(k) = 0 /\ status[k] = "failed"
          /\ WaveOf(j) = 0 /\ status[j] = "resolved"
          /\ WaveOf(l) = 1 /\ status[l] = "pending"
    /\ InFlight = {}
    /\ Len(sent) = EffectiveConcurrency(variant)
    /\ returned = <<>>

(* C10: with batchSize 2, concurrencyLimit 1 and five source keys the run
   never has more than one oracle call in flight, and the calls it issues
   are, in this order, the chunks of the source positions [0,1], [2,3] and
   [4]; a run that returns has issued exactly these three. *)
C10_CallerParametersGovern ==
    ( /\ options.batchSize = 2
      /\ options.concurrencyLimit = 1
      /\ Len(sourceValues) = 5
      /\ pc # "idle" ) =>
        LET expected == <<[batchIndex |-> 0, sourceBatch |-> Slice(sourceValues, 0, 2)],
                          [batchIndex |-> 1, sourceBatch |-> Slice(sourceValues, 2, 4)],
                          [batchIndex |-> 2, sourceBatch |-> Slice(sourceValues, 4, 5)]>>
        IN  /\ Cardinality(InFlight) <= 1
            /\ Len(sent) <= 3
            /\ sent = Slice(expected, 0, Len(sent))
            /\ pc = "done" => sent = expected

----------------------------------------------------------------------------
(* Table reader (GoogleSheetsClient).  A sheet is the sequence of its rows,
   a row the sequence of its cells, a cell its text ("" when empty).  The
   Sheets API leaves trailing empty rows and cells out of what it returns. *)

Max(a, b) == IF a >= b THEN a ELSE b

Cell(sheet, r, c) ==
    IF r \in 1..Len(sheet) /\ c \in 1..Len(sheet[r]) THEN sheet[r][c] ELSE ""

(* The last row with a non-empty cell in one of the columns cols; 0 if none *)
LastRowOf(sheet, cols) ==
    LET used == {r \in 1..Len(sheet) : \E c \in cols : Cell(sheet, r, c) # ""}
    IN  IF used = {} THEN 0 ELSE CHOOSE r \in used : \A q \in used : q <= r

(* The last non-empty cell of row r; 0 if none *)
LastCellOf(sheet, r) ==
    LET used == {c \in 1..Len(sheet[r]) : sheet[r][c] # ""}
    IN  IF used = {} THEN 0 ELSE CHOOSE c \in used : \A q \in used : q <= c

(* The characters of the header texts of the model *)
Spelling ==
    [Name  |-> <<"N", "a", "m", "e">>,
     Price |-> <<"P", "r", "i", "c", "e">>,
     Cost  |-> <<"C", "o", "s", "t">>]

Spell(text) == Spelling[text]

(* firstCell.includes('MOHON') || includes('ERROR') || includes('PERBAIKAN'):
   the banner texts of the model are the texts with such a word *)
BannerTexts == {"MOHON PERBAIKAN DATA"}

LooksLikeError(firstCell) == firstCell \in BannerTexts

(* A cell of a row object: empty cells become null (numbers are not told
   apart from other text here) *)
CellValue(text) == IF text = "" THEN Null ELSE text

(* readSpreadsheet: <<>> where it throws 'Spreadsheet is empty', else
   <<SheetData>> with the header texts as character sequences and every
   data row as the sequence of its values, in header order. *)
readSpreadsheet(sheet) ==
    LET last == LastRowOf(sheet, 1..Len(sheet[1]))
        looksLikeHeaders == {r \in 1..Min(last, 10) :
                                /\ LastCellOf(sheet, r) > 0
                                /\ ~LooksLikeError(Cell(sheet, r, 1))}
        headerRowIndex ==
            IF looksLikeHeaders = {} THEN 0
            ELSE (CHOOSE r \in looksLikeHeaders : \A q \in looksLikeHeaders : r <= q) - 1
        headers == [c \in 1..LastCellOf(sheet, headerRowIndex + 1) |->
                       Spell(Cell(sheet, headerRowIndex + 1, c))]
    IN  IF Len(sheet) = 0 \/ last = 0 THEN <<>>
        ELSE <<[headers        |-> headers,
                rows           |-> [k \in 1..(last - headerRowIndex - 1) |->
                                      [c \in 1..Len(headers) |->
                                          CellValue(Cell(sheet, headerRowIndex + 1 + k, c))]],
                headerRowIndex |-> headerRowIndex]>>

(* row[header] of a row object: the value under the last column with that
   header text, null (for undefined) when there is none *)
RowGet(headers, row, header) ==
    LET hits == {c \in 1..Len(headers) : headers[c] = header}
    IN  IF hits = {} THEN Null ELSE row[CHOOSE c \in hits : \A q \in hits : q <= c]

(* values.get of the range `${column}${startRow}:${column}`: the cells of
   the column from startRow to its last non-empty cell, empty cells in
   between as '' *)
ColumnRange(sheet, c, startRow) ==
    [values   |-> [k \in 1..Max(0, LastRowOf(sheet, {c}) - startRow + 1) |->
                      Cell(sheet, startRow + k - 1, c)],
     startRow |-> startRow]

ColumnOfReference(sheet, cellRef, upper) ==
    ColumnRange(sheet,
                columnToIndex(IF cellRef # <<>> THEN cellRef[1].column ELSE upper) + 1,
                IF cellRef # <<>> THEN cellRef[1].row ELSE 1)

(* readColumnByCoordinate: column and start row from the cell reference,
   or the column letters and row 1 *)
readColumnByCoordinate(sheet, columnCoordinate) ==
    ColumnOfReference(sheet, parseCellCoordinate(columnCoordinate),
                      trim(toUpperCase(columnCoordinate)))

(* resolveColumnIdentifier: <<>> for null, else <<header>> *)
resolveColumnIdentifier(columnId, headers) ==
    IF columnId = <<>> THEN <<>>
    ELSE IF isCoordinate(columnId)
    THEN LET index == columnToIndex(columnId)
         IN  IF index >= 0 /\ index < Len(headers) THEN <<headers[index + 1]>> ELSE <<>>
    ELSE LET hits == {c \in 1..Len(headers) :
                         toLowerCase(headers[c]) = toLowerCase(columnId)}
             first == CHOOSE c \in hits : \A q \in hits : c <= q
         IN  IF hits = {} \/ headers[first] = <<>> THEN <<>> ELSE <<headers[first]>>

(* getColumnHeader: <<>> where it throws 'Column not found' *)
getColumnHeader(columnId, headers) == resolveColumnIdentifier(columnId, headers)

----------------------------------------------------------------------------
(* Transfer planner: the handler of spreadsheet_transfer_data.  The file
   holds two definitions of it; v = "matcher_ts" is the first (lines
   150-397), v = "part_003" the second (lines 651-997). *)

(* The handler's choice for one column identifier: a coordinate is used as
   it is, in upper case; anything else is looked up among the headers.
   <<>> where getColumnHeader throws. *)
ResolveColumn(columnId, headers) ==
    IF isCoordinate(columnId) THEN <<toUpperCase(columnId)>>
    ELSE getColumnHeader(columnId, headers)

(* input.valueColumns.map(mapping => ...) *)
ResolveMappings(valueColumns, masterData, sourceData) ==
    [n \in 1..Len(valueColumns) |->
        [sourceHeader       |-> ResolveColumn(valueColumns[n].sourceColumn,
                                              sourceData.headers),
         masterHeader       |-> ResolveColumn(valueColumns[n].masterColumn,
                                              masterData.headers),
         sourceIsCoordinate |-> isCoordinate(valueColumns[n].sourceColumn),
         masterIsCoordinate |-> isCoordinate(valueColumns[n].masterColumn)]]

NonEmptyValue(item) == item.value # ""

(* The row number the handler gives the key cell at array index `index`:
   the array index in the first definition, the sheet row in the second *)
KeyRowIndex(v, startRow, index) == IF v = "matcher_ts" THEN index ELSE startRow + index

(* Key records of a column read by coordinate (second definition) *)
KeysByCoordinate(v, sheet, columnCoordinate) ==
    LET column == readColumnByCoordinate(sheet, columnCoordinate)
    IN  SelectSeq([k \in 1..Len(column.values) |->
                      [value    |-> column.values[k],
                       rowIndex |-> KeyRowIndex(v, column.startRow, k - 1)]],
                  NonEmptyValue)

(* Key records of a column of the loaded table: String(row[header] ?? '') *)
KeysByHeader(v, data, header) ==
    SelectSeq([k \in 1..Len(data.rows) |->
                  [value    |-> LET cell == RowGet(data.headers, data.rows[k], header)
                                IN  IF cell = Null THEN "" ELSE cell,
                   rowIndex |-> KeyRowIndex(v, data.headerRowIndex + 2, k - 1)]],
              NonEmptyValue)

(* masterStartRow / sourceStartRow of the second definition *)
StartRow(sheet, data, columnId) ==
    IF isCoordinate(columnId) THEN readColumnByCoordinate(sheet, columnId).startRow
    ELSE data.headerRowIndex + 2

(* masterRowOffset of the first definition *)
RowOffset(columnId) ==
    IF isCoordinate(columnId) THEN extractRowFromCoordinate(columnId)[1] - 1 ELSE 0

(* The Table Reader calls up to the call of matchValues, in issue order *)
ReadsBeforeMatching(inp) ==
    <<[op |-> "readSpreadsheet", sheet |-> "master"],
      [op |-> "readSpreadsheet", sheet |-> "source"]>>
    \o (IF isCoordinate(inp.masterUniqueColumn)
        THEN <<[op |-> "readColumnByCoordinate", sheet |-> "master",
                column |-> inp.masterUniqueColumn]>>
        ELSE <<>>)
    \o (IF isCoordinate(inp.sourceUniqueColumn)
        THEN <<[op |-> "readColumnByCoordinate", sheet |-> "source",
                column |-> inp.sourceUniqueColumn]>>
        ELSE <<>>)

(* The reads that fill sourceColumnCache, one per coordinate mapping *)
RECURSIVE CacheReads(_, _)
CacheReads(resolved, n) ==
    IF n > Len(resolved) THEN <<>>
    ELSE (IF resolved[n].sourceIsCoordinate
          THEN <<[op |-> "readColumnByCoordinate", sheet |-> "source",
                  column |-> resolved[n].sourceHeader[1]]>>
          ELSE <<>>) \o CacheReads(resolved, n + 1)

(* sourceColumnCache after the loop that fills it: for each mapping whose
   source column is a coordinate, what readColumnByCoordinate returned for
   it (the map is keyed by the coordinate; here by the mapping) *)
NoColumn == [values |-> <<>>, startRow |-> 0]

FillCache(resolved, sourceSheet_) ==
    [n \in 1..Len(resolved) |->
        IF resolved[n].sourceIsCoordinate
        THEN readColumnByCoordinate(sourceSheet_, resolved[n].sourceHeader[1])
        ELSE NoColumn]

(* cacheData.values[cacheArrayIndex], null outside the array *)
CacheValue(cacheData, cacheArrayIndex) ==
    IF cacheArrayIndex >= 0 /\ cacheArrayIndex < Len(cacheData.values)
    THEN cacheData.values[cacheArrayIndex + 1]
    ELSE Null

(* sourceRow[header] ?? null of sourceData.rows[sourceDataArrayIndex], null
   outside the array *)
RowValue(sourceData, sourceDataArrayIndex, header) ==
    IF sourceDataArrayIndex >= 0 /\ sourceDataArrayIndex < Len(sourceData.rows)
    THEN RowGet(sourceData.headers, sourceData.rows[sourceDataArrayIndex + 1], header)
    ELSE Null

(* The value the planner stages for one match and one resolved mapping.
   The first definition indexes the rows, and what it takes for the column
   array, by the match's sourceRowIndex; the column array is the object
   {values, startRow}, so that read is undefined and null is staged. *)
StagedValue(v, match, rm, cacheData, sourceData, sourceStartRow) ==
    IF v = "matcher_ts"
    THEN IF rm.sourceIsCoordinate
         THEN Null
         ELSE RowValue(sourceData, match.sourceRowIndex, rm.sourceHeader[1])
    ELSE IF rm.sourceIsCoordinate
         THEN CacheValue(cacheData, match.sourceRowIndex - cacheData.startRow)
         ELSE RowValue(sourceData, match.sourceRowIndex - sourceStartRow,
                       rm.sourceHeader[1])

(* The last mapping that names master header h *)
LastMappingOf(resolved, h) ==
    CHOOSE m \in 1..Len(resolved) :
        /\ resolved[m].masterHeader[1] = h
        /\ \A q \in 1..Len(resolved) : resolved[q].masterHeader[1] = h => q <= m

StagedByMapping(v, match, resolved, cache, sourceData, sourceStartRow, n) ==
    StagedValue(v, match, resolved[n], cache[n], sourceData, sourceStartRow)

(* valuesToTransfer of one match: an object keyed by master header, so the
   last mapping of a header is the one it holds *)
ValuesToTransfer(v, match, resolved, cache, sourceData, sourceStartRow) ==
    [h \in {resolved[n].masterHeader[1] : n \in 1..Len(resolved)} |->
        StagedByMapping(v, match, resolved, cache, sourceData, sourceStartRow,
                        LastMappingOf(resolved, h))]

PlanMappings(v, matches, resolved, cache, sourceData, sourceStartRow) ==
    [k \in 1..Len(matches) |->
        [masterValue      |-> matches[k].masterValue,
         sourceValue      |-> matches[k].sourceValue,
         confidence       |-> matches[k].confidence,
         valuesToTransfer |-> ValuesToTransfer(v, matches[k], resolved, cache,
                                               sourceData, sourceStartRow)]]

(* updates.push({rowIndex, columnName, value}) for one match and mapping *)
UpdateOf(v, match, rm, cacheData, sourceData, sourceStartRow, masterRowOffset) ==
    [rowIndex   |-> IF v = "matcher_ts"
                    THEN match.masterRowIndex + masterRowOffset
                    ELSE match.masterRowIndex,
     columnName |-> rm.masterHeader[1],
     value      |-> StagedValue(v, match, rm, cacheData, sourceData, sourceStartRow)]

(* The pushes of the two nested loops: for each match in order, one update
   per mapping in order *)
AllUpdates(v, matches, resolved, cache, sourceData, sourceStartRow, masterRowOffset, M) ==
    [n \in 1..(Len(matches) * M) |->
        UpdateOf(v, matches[((n - 1) \div M) + 1], resolved[((n - 1) % M) + 1],
                 cache[((n - 1) % M) + 1], sourceData, sourceStartRow, masterRowOffset)]

HasValue(u) == u.value # Null

(* A planner that stages an update only for a value that is there. *)
PlanUpdatesOfValues(v, dryRun, matches, resolved, cache, sourceData, sourceStartRow, masterRowOffset) ==
    IF dryRun THEN <<>>
    ELSE SelectSeq(AllUpdates(v, matches, resolved, cache, sourceData, sourceStartRow,
                              masterRowOffset, Len(resolved)),
                   HasValue)

(* A planner that stages the updates in a dry run too. *)
PlanUpdatesAlways(v, dryRun, matches, resolved, cache, sourceData, sourceStartRow, masterRowOffset) ==
    AllUpdates(v, matches, resolved, cache, sourceData, sourceStartRow, masterRowOffset,
               Len(resolved))

(* The `updates` of the handler: none in a dry run *)
PlanUpdates(v, dryRun, matches, resolved, cache, sourceData, sourceStartRow, masterRowOffset) ==
    IF dryRun THEN <<>>
    ELSE AllUpdates(v, matches, resolved, cache, sourceData, sourceStartRow,
                    masterRowOffset, Len(resolved))

(* masterBaseRow: what the handler passes as baseRowIndex *)
MasterBaseRow(v, masterUniqueColumn) ==
    IF v = "matcher_ts"
    THEN IF isCoordinate(masterUniqueColumn) THEN RowOffset(masterUniqueColumn) + 1 ELSE 2
    ELSE 0

----------------------------------------------------------------------------
(* Table writer (GoogleSheetsClient.updateSpreadsheet) *)

Least(S) == CHOOSE c \in S : \A q \in S : c <= q

Greatest(S) == CHOOSE c \in S : \A q \in S : q <= c

(* headers.indexOf(columnName), then the case-insensitive findIndex *)
IndexAmong(exact, folded) ==
    IF exact # {} THEN Least(exact) - 1
    ELSE IF folded # {} THEN Least(folded) - 1
    ELSE -1

(* The 0-based column index of an update's columnName, -1 if not found *)
ColumnIndexOf(columnName, headers) ==
    IF isCoordinate(columnName)
    THEN columnToIndex(extractColumnFromCoordinate(columnName)[1])
    ELSE IndexAmong({c \in 1..Len(headers) : headers[c] = columnName},
                    {c \in 1..Len(headers) :
                        toLowerCase(headers[c]) = toLowerCase(columnName)})

(* colIndex of every update, in order *)
ColumnIndexes(ups, headers) ==
    [n \in 1..Len(ups) |-> ColumnIndexOf(ups[n].columnName, headers)]

(* The keys of updatesByRow in insertion order: the rowIndex of the updates
   whose column was found, each at its first occurrence *)
RECURSIVE RowsInOrder(_, _, _)
RowsInOrder(ups, cols, n) ==
    IF n > Len(ups) THEN <<>>
    ELSE (IF cols[n] = -1
              \/ \E m \in 1..(n - 1) : ups[m].rowIndex = ups[n].rowIndex /\ cols[m] # -1
          THEN <<>>
          ELSE <<ups[n].rowIndex>>) \o RowsInOrder(ups, cols, n + 1)

(* colUpdates.get(i) ?? '': the value of the last update of the column, ''
   for none and for null *)
LastValue(ups, setters) ==
    IF setters = {} THEN ""
    ELSE IF ups[Greatest(setters)].value = Null THEN ""
    ELSE ups[Greatest(setters)].value

RangeOf(ups, cols, mine, minCol, maxCol, apiRowIndex) ==
    [row      |-> apiRowIndex,
     startCol |-> columnIndexToLetter(minCol),
     endCol   |-> columnIndexToLetter(maxCol),
     values   |-> [k \in 1..(maxCol - minCol + 1) |->
                     LastValue(ups, {n \in mine : cols[n] = minCol + k - 1})]]

RangeOfUpdates(ups, cols, mine, apiRowIndex) ==
    RangeOf(ups, cols, mine, Least({cols[n] : n \in mine}),
            Greatest({cols[n] : n \in mine}), apiRowIndex)

(* One entry of `data`: the range of a row from its first to its last
   updated column, '' in the columns in between that have no update and in
   those whose update is null *)
RowRange(ups, cols, rowIndex, baseRowIndex) ==
    RangeOfUpdates(ups, cols,
                   {n \in 1..Len(ups) : ups[n].rowIndex = rowIndex /\ cols[n] # -1},
                   baseRowIndex + rowIndex)

RangesOf(ups, cols, rows, baseRowIndex) ==
    IF rows = <<>> THEN <<>>
    ELSE <<[k \in 1..Len(rows) |-> RowRange(ups, cols, rows[k], baseRowIndex)]>>

RangesOfColumns(ups, cols, baseRowIndex) ==
    RangesOf(ups, cols, RowsInOrder(ups, cols, 1), baseRowIndex)

(* updateSpreadsheet: the batchUpdate requests it issues - none when no
   update names a column of the sheet, else one with every row range *)
updateSpreadsheet(sheetData, ups, baseRowIndex) ==
    RangesOfColumns(ups, ColumnIndexes(ups, sheetData.headers), baseRowIndex)

----------------------------------------------------------------------------
(* One call of spreadsheet_transfer_data *)

MaxBanner == 1     \* most banner rows above the header row of a sheet
MaxMappings == 2   \* most value-column mappings of a call

(* A sheet of two columns: banner rows, the header row, the data rows *)
SheetOf(banners, headerTexts, data) ==
    [r \in 1..banners |-> <<"MOHON PERBAIKAN DATA", "">>] \o <<headerTexts>> \o data

(* Master tables: key column A ("Name"), value column B ("Price"); the
   second one has a row without key above the row of key "a". *)
MasterTables ==
    {<< <<"a", "">> >>,
     << <<"", "p0">>, <<"a", "">> >>}

(* Source tables: key column A ("Name"), value column B ("Cost").  The
   second one has a row without key between its keys, an empty value cell
   inside column B and one at its end. *)
SourceTables ==
    {<< <<"x", "v1">>, <<"y", "v2">> >>,
     << <<"x", "">>, <<"", "v2">>, <<"y", "">> >>}

(* A source table of more rows than one chunk of part_003 holds *)
LongSourceTable ==
    [k \in 1..(BATCH_SIZE + 1) |-> <<IF k % 2 = 1 THEN "x" ELSE "y", "v1">>]

MasterSheets ==
    {SheetOf(b, <<"Name", "Price">>, t) : b \in 0..MaxBanner, t \in MasterTables}

SourceSheets ==
    {SheetOf(b, <<"Name", "Cost">>, t) : b \in 0..MaxBanner, t \in SourceTables}
    \cup {SheetOf(0, <<"Name", "Cost">>, LongSourceTable)}

(* Column identifiers: a header name or a coordinate with or without row *)
MasterKeyColumns == {<<"N", "a", "m", "e">>, <<"A">>, <<"a", "3">>}

SourceKeyColumns == {<<"n", "a", "m", "e">>, <<"A">>, <<"A", "2">>}

ValueColumnMappings ==
    {[sourceColumn |-> <<"C", "o", "s", "t">>, masterColumn |-> <<"P", "r", "i", "c", "e">>],
     [sourceColumn |-> <<"b", "3">>, masterColumn |-> <<"B">>]}

(* A mapping whose master column is a coordinate beyond the two headers of
   the master sheet *)
MappingBeyondHeaders ==
    [sourceColumn |-> <<"C", "o", "s", "t">>, masterColumn |-> <<"C">>]

(* Two mappings into the master columns A and C, to either side of B *)
MappingsAroundB ==
    <<[sourceColumn |-> <<"C", "o", "s", "t">>, masterColumn |-> <<"A">>],
      MappingBeyondHeaders>>

(* TransferDataInputSchema; batchSize is an option of the first definition
   only, the second one knows no such key *)
Inputs(v) ==
    [masterUniqueColumn : MasterKeyColumns,
     sourceUniqueColumn : SourceKeyColumns,
     valueColumns       : SeqsUpTo(ValueColumnMappings, MaxMappings)
                             \cup {<<MappingBeyondHeaders>>, MappingsAroundB},
     options            : [dryRun    : BOOLEAN,
                           batchSize : IF v = "matcher_ts"
                                       THEN {DefaultBatchSize, DefaultBatchSize \div 12}
                                       ELSE {DefaultBatchSize}]]

InitTransfer ==
    /\ variant \in Variants
    /\ input \in Inputs(variant)
    /\ masterSheet \in MasterSheets
    /\ sourceSheet \in SourceSheets
    /\ hpc = "called"
    /\ locals = <<>>
    /\ reads = <<>>
    /\ mappings = <<>>
    /\ updates = <<>>
    /\ written = <<>>
    /\ result = <<>>
    /\ masterValues = <<>>
    /\ sourceValues = <<>>
    /\ confidenceThreshold = 0
    /\ options = DefaultOptions
    /\ pc = "uncalled"
    /\ chunks = <<>>
    /\ i = 0
    /\ status = <<>>
    /\ replied = <<>>
    /\ results = <<>>
    /\ sent = <<>>
    /\ allMatches = <<>>
    /\ allUnmatched = <<>>
    /\ returned = <<>>
    /\ earlier = <<>>
    /\ NoResolverCall

(* The handler fails: the error is logged and thrown again *)
HandlerThrows(issued) ==
    /\ hpc' = "failed"
    /\ reads' = issued
    /\ UNCHANGED <<masterValues, sourceValues, confidenceThreshold, options, pc, locals>>

(* What the handler holds when it calls matchValues *)
CallsMatchValues(masterData, sourceData, masterUniqueHeader, sourceUniqueHeader, resolved) ==
    /\ hpc' = "matching"
    /\ reads' = ReadsBeforeMatching(input)
    /\ locals' = [masterData      |-> masterData,
                  sourceData      |-> sourceData,
                  resolved        |-> resolved,
                  sourceStartRow  |-> StartRow(sourceSheet, sourceData,
                                               input.sourceUniqueColumn),
                  masterRowOffset |-> RowOffset(input.masterUniqueColumn),
                  masterBaseRow   |-> MasterBaseRow(variant, input.masterUniqueColumn),
                  cache           |-> <<>>]
    /\ masterValues' =
          IF isCoordinate(input.masterUniqueColumn)
          THEN KeysByCoordinate(variant, masterSheet, input.masterUniqueColumn)
          ELSE KeysByHeader(variant, masterData, masterUniqueHeader[1])
    /\ sourceValues' =
          IF isCoordinate(input.sourceUniqueColumn)
          THEN KeysByCoordinate(variant, sourceSheet, input.sourceUniqueColumn)
          ELSE KeysByHeader(variant, sourceData, sourceUniqueHeader[1])
    /\ confidenceThreshold' = 80
    /\ options' = [batchSize |-> input.options.batchSize, concurrencyLimit |-> 0]
    /\ pc' = "idle"

(* The handler after both sheets are read: resolve the column identifiers,
   extract the key records.  It throws when a header name is not found, and
   the first definition throws when a key column is a coordinate: it calls
   .map on what readColumnByCoordinate returns, which is the object
   {values, startRow}. *)
ResolvesColumns(masterData, sourceData, masterUniqueHeader, sourceUniqueHeader, resolved) ==
    IF \/ masterUniqueHeader = <<>>
       \/ sourceUniqueHeader = <<>>
       \/ \E n \in 1..Len(resolved) :
             resolved[n].sourceHeader = <<>> \/ resolved[n].masterHeader = <<>>
    THEN HandlerThrows(SubSeq(ReadsBeforeMatching(input), 1, 2))
    ELSE IF variant = "matcher_ts" /\ isCoordinate(input.masterUniqueColumn)
    THEN HandlerThrows(SubSeq(ReadsBeforeMatching(input), 1, 3))
    ELSE IF variant = "matcher_ts" /\ isCoordinate(input.sourceUniqueColumn)
    THEN HandlerThrows(ReadsBeforeMatching(input))
    ELSE CallsMatchValues(masterData, sourceData, masterUniqueHeader, sourceUniqueHeader,
                          resolved)

ReadsSheets(masterData, sourceData) ==
    ResolvesColumns(masterData, sourceData,
                    ResolveColumn(input.masterUniqueColumn, masterData.headers),
                    ResolveColumn(input.sourceUniqueColumn, sourceData.headers),
                    ResolveMappings(input.valueColumns, masterData, sourceData))

(* The handler up to its call of matchValues *)
TransferStart ==
    /\ hpc = "called"
    /\ IF readSpreadsheet(masterSheet) = <<>> \/ readSpreadsheet(sourceSheet) = <<>>
       THEN HandlerThrows(SubSeq(ReadsBeforeMatching(input), 1, 2))
       ELSE ReadsSheets(readSpreadsheet(masterSheet)[1], readSpreadsheet(sourceSheet)[1])
    /\ UNCHANGED <<variant, chunks, i, status, replied, results, sent, allMatches,
                   allUnmatched, returned>>
    /\ UNCHANGED <<input, masterSheet, sourceSheet, mappings, updates, written, result>>
    /\ UNCHANGED <<resolverVars, earlier>>

(* A handler that goes on when matchValues has rejected. *)
MatchValuesSettled == pc \in {"done", "rejected"}

(* `await matcher.matchValues(...)` hands over its result *)
MatchValuesReturned == pc = "done"

(* matchValues has returned: the handler reads the source columns that the
   mappings name by coordinate into sourceColumnCache. *)
TransferReadsColumns ==
    /\ hpc = "matching"
    /\ MatchValuesReturned
    /\ reads' = reads \o CacheReads(locals.resolved, 1)
    /\ locals' = [locals EXCEPT !.cache = FillCache(locals.resolved, sourceSheet)]
    /\ hpc' = "planning"
    /\ UNCHANGED <<matcherVars, input, masterSheet, sourceSheet, mappings, updates,
                   written, result, resolverVars, earlier>>

(* The two nested loops over matches and mappings: fill valuesToTransfer of
   every match and, unless this is a dry run, push the updates. *)
TransferPlans ==
    /\ hpc = "planning"
    /\ mappings' = PlanMappings(variant, returned[1].matches, locals.resolved,
                                locals.cache, locals.sourceData, locals.sourceStartRow)
    /\ updates' = PlanUpdates(variant, input.options.dryRun, returned[1].matches,
                              locals.resolved, locals.cache, locals.sourceData,
                              locals.sourceStartRow, locals.masterRowOffset)
    /\ hpc' = "planned"
    /\ UNCHANGED <<matcherVars, input, masterSheet, sourceSheet, locals, reads, written,
                   result, resolverVars, earlier>>

(* if (!options.dryRun && updates.length > 0) await updateSpreadsheet(...) *)
TransferWrites ==
    /\ hpc = "planned"
    /\ ~input.options.dryRun
    /\ Len(updates) > 0
    /\ written' = <<[updates      |-> updates,
                     baseRowIndex |-> locals.masterBaseRow,
                     batchUpdate  |-> updateSpreadsheet(locals.masterData, updates,
                                                        locals.masterBaseRow)]>>
    /\ hpc' = "written"
    /\ UNCHANGED <<matcherVars, input, masterSheet, sourceSheet, locals, reads, mappings,
                   updates, result, resolverVars, earlier>>

(* The handler returns its result, after the write where there is one *)
TransferReturns ==
    /\ \/ hpc = "written"
       \/ hpc = "planned" /\ (input.options.dryRun \/ Len(updates) = 0)
    /\ result' = <<[success   |-> TRUE,
                    dryRun    |-> input.options.dryRun,
                    matched   |-> Len(returned[1].matches),
                    mappings  |-> mappings,
                    unmatched |-> returned[1].unmatched]>>
    /\ hpc' = "returned"
    /\ UNCHANGED <<matcherVars, input, masterSheet, sourceSheet, locals, reads, mappings,
                   updates, written, resolverVars, earlier>>

(* matchValues has rejected: the await throws into the handler's catch,
   which logs and throws again. *)
TransferRejects ==
    /\ hpc = "matching"
    /\ pc = "rejected"
    /\ hpc' = "failed"
    /\ UNCHANGED <<matcherVars, input, masterSheet, sourceSheet, locals, reads, mappings,
                   updates, written, result, resolverVars, earlier>>

NextTransfer ==
    \/ TransferStart
    \/ MatchValuesStart
    \/ OracleAnswers
    \/ OracleFails
    \/ WaveDone
    \/ TransferReadsColumns
    \/ TransferPlans
    \/ TransferWrites
    \/ TransferReturns
    \/ TransferRejects

SpecTransfer == InitTransfer /\ [][NextTransfer]_vars

----------------------------------------------------------------------------
(* Coordinate resolver calls: one argument, and the resolver functions
   applied to it - a function alone, or the two column conversions one
   after the other. *)

MaxTokenLen == 5       \* longest token of the parser runs

MaxColumnLetters == 3  \* /^[A-Z]{1,3}$/: the longest column token

(* The characters tokens are made of: letters of both cases, the digit 0
   and another digit, white space and a character that is neither. *)
TokenChars == {"A", "b", "0", "1", " ", "-"}

Tokens == SeqsUpTo(TokenChars, MaxTokenLen)

(* Every column token A .. ZZZ and every column index 0 .. 18277 *)
ColumnTokens ==
    UNION {[1..n -> {UpperCaseLetters[k] : k \in 1..26}] : n \in 1..MaxColumnLetters}

LastColumnIndex == 26 + 26 * 26 + 26 * 26 * 26 - 1

InitResolver ==
    /\ arg \in [kind : {"token"}, value : Tokens \cup ColumnTokens]
                 \cup [kind : {"index"}, value : 0..LastColumnIndex]
    /\ answer = <<>>
    /\ variant = "part_003"
    /\ masterValues = <<>>
    /\ sourceValues = <<>>
    /\ confidenceThreshold = 80
    /\ options = DefaultOptions
    /\ Idle
    /\ NoTransfer

(* What the next conversion is applied to: the argument, or the value of
   the conversion before *)
Subject ==
    IF answer = <<>> THEN arg
    ELSE [kind |-> answer[Len(answer)].kind, value |-> answer[Len(answer)].value]

CallParseCellCoordinate ==
    /\ answer = <<>>
    /\ arg # <<>>
    /\ arg.kind = "token"
    /\ answer' = <<[op |-> "parseCellCoordinate", of |-> arg.value, kind |-> "cell",
                    value |-> parseCellCoordinate(arg.value)]>>
    /\ UNCHANGED <<arg, matcherVars, transferVars, earlier>>

CallIsCoordinate ==
    /\ answer = <<>>
    /\ arg # <<>>
    /\ arg.kind = "token"
    /\ answer' = <<[op |-> "isCoordinate", of |-> arg.value, kind |-> "boolean",
                    value |-> isCoordinate(arg.value)]>>
    /\ UNCHANGED <<arg, matcherVars, transferVars, earlier>>

CallColumnToIndex ==
    /\ arg # <<>>
    /\ Len(answer) < 2
    /\ Subject.kind = "token"
    /\ answer' = Append(answer, [op |-> "columnToIndex", of |-> Subject.value,
                                 kind |-> "index",
                                 value |-> columnToIndex(Subject.value)])
    /\ UNCHANGED <<arg, matcherVars, transferVars, earlier>>

CallIndexToColumn ==
    /\ arg # <<>>
    /\ Len(answer) < 2
    /\ Subject.kind = "index"
    /\ answer' = Append(answer, [op |-> "indexToColumn", of |-> Subject.value,
                                 kind |-> "token",
                                 value |-> indexToColumn(Subject.value)])
    /\ UNCHANGED <<arg, matcherVars, transferVars, earlier>>

(* Header lists of the resolver runs.  Header names are made of the token
   characters: a name of two letters, a name of a letter and a digit and a
   name of one letter; a single name that is no letter; and a list longer
   than the index a cell reference of the tokens can come to. *)
ShortHeaders == << <<"A", "b">>, <<"b", "0">>, <<"A">> >>

OneHeader == << <<"-">> >>

LongHeaderCount == 40

LongHeaders == [c \in 1..LongHeaderCount |-> <<"-">> \o indexToColumn(c - 1)]

HeaderLists == {ShortHeaders, OneHeader, LongHeaders}

CallResolveColumnIdentifier ==
    /\ answer = <<>>
    /\ arg # <<>>
    /\ arg.kind = "token"
    /\ \E headers \in HeaderLists :
          answer' = <<[op |-> "resolveColumnIdentifier", of |-> arg.value,
                       headers |-> headers, kind |-> "header",
                       value |-> resolveColumnIdentifier(arg.value, headers)]>>
    /\ UNCHANGED <<arg, matcherVars, transferVars, earlier>>

(* The 0-based sheet column the transfer addresses for a resolved column:
   that of the coordinate's letters (readColumnByCoordinate,
   updateSpreadsheet), or that of the header name; <<>> where the
   resolution has thrown *)
ColumnOfResolved(resolved, headers) ==
    IF resolved = <<>> THEN <<>> ELSE <<ColumnIndexOf(resolved[1], headers)>>

ColumnOfToken(columnId, headers) ==
    ColumnOfResolved(ResolveColumn(columnId, headers), headers)

(* The transfer handler resolves one unique-column or value-column token
   against the headers of its table *)
CallResolveColumn ==
    /\ answer = <<>>
    /\ arg # <<>>
    /\ arg.kind = "token"
    /\ \E headers \in HeaderLists :
          answer' = <<[op |-> "resolveColumn", of |-> arg.value,
                       headers |-> headers, kind |-> "column",
                       value |-> ColumnOfToken(arg.value, headers)]>>
    /\ UNCHANGED <<arg, matcherVars, transferVars, earlier>>

NextResolver ==
    \/ CallResolveColumn
    \/ CallParseCellCoordinate
    \/ CallIsCoordinate
    \/ CallColumnToIndex
    \/ CallIndexToColumn
    \/ CallResolveColumnIdentifier

SpecResolver == InitResolver /\ [][NextResolver]_vars

----------------------------------------------------------------------------
(* Repeated runs (specification SpecAgain) *)

(* A second run has returned, every chunk answered as in the first run *)
RepeatedRunReturned ==
    /\ earlier # <<>>
    /\ pc = "done"
    /\ replied = earlier[1].replied

(* C25: reconciliation is deterministic and idempotent: a second run of
   matchValues on the same master records, source records and threshold,
   with the same oracle reply for every chunk, returns the same set of
   MatchResults and the same set of UnmatchedItems as the first run, and
   nothing the first run left changes it: the lists returned are the same
   lists, element by element. *)
C25_SecondRunReturnsTheSame ==
    RepeatedRunReturned =>
        /\ Elems(returned[1].matches) = Elems(earlier[1].returned.matches)
        /\ Elems(returned[1].unmatched) = Elems(earlier[1].returned.unmatched)
        /\ returned[1] = earlier[1].returned

(* C25 witness: a second run has returned a match and an unmatched item *)
C25_Witness ==
    /\ RepeatedRunReturned
    /\ returned[1].matches # <<>>
    /\ returned[1].unmatched # <<>>

----------------------------------------------------------------------------
(* Reordered replies (specification Spec) *)

(* The permutations of 1..n *)
Perms(n) == {p \in [1..n -> 1..n] : \A a, b \in 1..n : p[a] = p[b] => a = b}

Permute(seq, p) == [k \in 1..Len(seq) |-> seq[p[k]]]

(* The replies that hold the judgments of a reply in another order *)
PermutedReplies(v, reply) ==
    IF v = "part_003"
    THEN {[normalizedItems |-> Permute(reply.normalizedItems, p)] :
             p \in Perms(Len(reply.normalizedItems))}
    ELSE {[matches |-> Permute(reply.matches, p), unmatched |-> Permute(reply.unmatched, q)] :
             p \in Perms(Len(reply.matches)), q \in Perms(Len(reply.unmatched))}

(* The source values of a chunk are pairwise distinct *)
DistinctValues(chunk) ==
    \A a, b \in 1..Len(chunk) : chunk[a].value = chunk[b].value => a = b

(* C26: judgments are bound to source records by the source value, not by
   position: for a chunk of pairwise distinct source values, every
   reordering of the judgments of the reply gives the same set of
   MatchResults and the same set of UnmatchedItems. *)
C26_ReplyOrderDoesNotMatter ==
    \A k \in DOMAIN status :
        (status[k] = "resolved" /\ DistinctValues(chunks[k + 1])) =>
            \A reply \in PermutedReplies(variant, replied[k][1]) :
                /\ Elems(Reconcile(variant, reply, chunks[k + 1], masterValues,
                                   confidenceThreshold).matches)
                      = Elems(results[k].matches)
                /\ Elems(Reconcile(variant, reply, chunks[k + 1], masterValues,
                                   confidenceThreshold).unmatched)
                      = Elems(results[k].unmatched)

(* A chunk of two distinct source values resolved on a reply that judges
   the second value first, one judgment accepted and one not. *)
C26_Witness ==
    \E k \in DOMAIN status :
        /\ status[k] = "resolved"
        /\ Len(chunks[k + 1]) = 2
        /\ DistinctValues(chunks[k + 1])
        /\ Len(results[k].matches) = 1
        /\ Len(results[k].unmatched) = 1
        /\ results[k].matches[1].sourceValue = chunks[k + 1][2].value
        /\ results[k].unmatched[1].sourceValue = chunks[k + 1][1].value
        /\ variant = "part_003" =>
              replied[k][1].normalizedItems[1].originalSourceValue = chunks[k + 1][2].value

----------------------------------------------------------------------------
(* Properties of the coordinate resolver (specification SpecResolver) *)

(* The column after t in spreadsheet order: A, B, .., Z, AA, AB, .., ZZ, AAA *)
RECURSIVE NextColumn(_)
NextColumn(t) ==
    IF t = <<>> THEN <<"A">>
    ELSE IF t[Len(t)] = "Z" THEN NextColumn(SubSeq(t, 1, Len(t) - 1)) \o <<"A">>
    ELSE SubSeq(t, 1, Len(t) - 1)
           \o <<UpperCaseLetters[Position(UpperCaseLetters, t[Len(t)]) + 1]>>

(* C18: columnToIndex and indexToColumn are mutually inverse between the
   column tokens A .. ZZZ and the indices 0 .. 18277 and follow spreadsheet
   order: A has index 0, Z 25, AA 26, ZZZ 18277, the token after t in
   spreadsheet order has the index after t's (so columnToIndex is strictly
   increasing), indexToColumn(columnToIndex(t)) = t and
   columnToIndex(indexToColumn(k)) = k. *)
C18_ColumnIndexBijection ==
    /\ \A n \in 1..Len(answer) :
          LET e == answer[n]
          IN  /\ (e.op = "columnToIndex" /\ e.of \in ColumnTokens) =>
                    /\ e.value \in 0..LastColumnIndex
                    /\ e.of = <<"A">> => e.value = 0
                    /\ e.of = <<"Z">> => e.value = 25
                    /\ e.of = <<"A", "A">> => e.value = 26
                    /\ e.of = <<"Z", "Z", "Z">> => e.value = LastColumnIndex
                    /\ e.of # <<"Z", "Z", "Z">> =>
                          columnToIndex(NextColumn(e.of)) = e.value + 1
              /\ (e.op = "indexToColumn" /\ e.of \in 0..LastColumnIndex) =>
                    e.value \in ColumnTokens
    /\ ( /\ Len(answer) = 2
         /\ arg.kind = "token"
         /\ arg.value \in ColumnTokens ) => answer[2].value = arg.value
    /\ (Len(answer) = 2 /\ arg.kind = "index") => answer[2].value = arg.value

(* C18 witness: the last column token went to its index and back, and an
   index in the three-letter range went to its token and back. *)
C18_Witness ==
    /\ Len(answer) = 2
    /\ \/ /\ arg.kind = "token"
          /\ arg.value = <<"Z", "Z", "Z">>
          /\ answer[1].value = LastColumnIndex
          /\ answer[2].value = <<"Z", "Z", "Z">>
       \/ /\ arg.kind = "index"
          /\ arg.value = 26 + 26 * 26
          /\ answer[1].value = <<"A", "A", "A">>
          /\ answer[2].value = 26 + 26 * 26

IsLetter(c) == \E k \in 1..26 : c = UpperCaseLetters[k] \/ c = LowerCaseLetters[k]

(* The token is n letters of either case followed by digits only (none, if
   the token ends there) *)
LettersThenDigits(tok, n) ==
    /\ n <= Len(tok)
    /\ \A k \in 1..n : IsLetter(tok[k])
    /\ \A k \in (n + 1)..Len(tok) : tok[k] \in {DecimalDigits[d] : d \in 1..10}

(* /^[A-Z]{1,3}\d+$/i *)
IsCellPattern(tok) == \E n \in 1..3 : n < Len(tok) /\ LettersThenDigits(tok, n)

(* The letters at the head of a token of the cell pattern *)
LettersPrefix(tok) ==
    LET n == CHOOSE m \in 1..3 : m < Len(tok) /\ LettersThenDigits(tok, m)
    IN  SubSeq(tok, 1, n)

(* Some digit of the token is not 0: its digits denote a number >= 1 *)
HasNonZeroDigit(tok) ==
    \E k \in 1..Len(tok) : \E d \in 2..10 : tok[k] = DecimalDigits[d]

(* C19, as claimed: parseCellCoordinate returns {column, row} with row >= 1
   and the letters prefix as column for every token of the pattern
   /^[A-Z]{1,3}\d+$/i, and null for every other token. *)
C19_ParseFollowsThePattern ==
    \A n \in 1..Len(answer) :
        answer[n].op = "parseCellCoordinate" =>
            IF IsCellPattern(answer[n].of)
            THEN /\ answer[n].value # <<>>
                 /\ answer[n].value[1].row >= 1
                 /\ answer[n].value[1].column = toUpperCase(LettersPrefix(answer[n].of))
            ELSE answer[n].value = <<>>

(* C19, amended: parseCellCoordinate returns {column, row} exactly for the
   tokens that, with surrounding white space removed, are of the pattern
   /^[A-Z]{1,3}\d+$/i and whose digits denote a number >= 1; column is the
   letters prefix in upper case and row that number.  For every other
   token - a row of 0 included - it returns null. *)
C19_ParseFollowsTheTrimmedPattern ==
    \A n \in 1..Len(answer) :
        answer[n].op = "parseCellCoordinate" =>
            LET tok == trim(answer[n].of)
            IN  IF IsCellPattern(tok) /\ HasNonZeroDigit(tok)
                THEN /\ answer[n].value # <<>>
                     /\ answer[n].value[1].row >= 1
                     /\ answer[n].value[1].row
                          = parseInt(SubSeq(tok, Len(LettersPrefix(tok)) + 1, Len(tok)))
                     /\ answer[n].value[1].column = toUpperCase(LettersPrefix(tok))
                ELSE answer[n].value = <<>>

(* C19 witness: a lower-case cell reference with white space around it and
   a two-digit row was parsed. *)
C19_Witness ==
    /\ Len(answer) = 1
    /\ answer[1].op = "parseCellCoordinate"
    /\ answer[1].of = <<" ", "b", "1", "0", " ">>
    /\ answer[1].value = <<[column |-> <<"B">>, row |-> 10]>>

(* C20, as claimed: isCoordinate is true exactly for the tokens that are one
   to three letters of either case, optionally followed by digits. *)
C20_CoordinateIffLettersDigits ==
    \A n \in 1..Len(answer) :
        answer[n].op = "isCoordinate" =>
            (answer[n].value <=> \E m \in 1..3 : LettersThenDigits(answer[n].of, m))

(* C20, amended: isCoordinate is true exactly for the tokens that, with
   surrounding white space removed, are one to three letters of either case
   alone, or one to three letters followed by digits that denote a row
   number >= 1.  It is false for every token with more than three leading
   letters and for letters followed by a row of 0. *)
C20_CoordinateIffColumnOrCell ==
    \A n \in 1..Len(answer) :
        answer[n].op = "isCoordinate" =>
            LET tok == trim(answer[n].of)
            IN  answer[n].value <=>
                    \/ Len(tok) \in 1..3 /\ LettersThenDigits(tok, Len(tok))
                    \/ IsCellPattern(tok) /\ HasNonZeroDigit(tok)

(* C20 witness: a token of four letters and a digit was found to be no
   coordinate. *)
C20_Witness ==
    /\ Len(answer) = 1
    /\ answer[1].op = "isCoordinate"
    /\ answer[1].of = <<"A", "b", "b", "A", "1">>
    /\ answer[1].value = FALSE

(* The headers of a list that equal the token ignoring case *)
HeadersNamed(tok, headers) ==
    {headers[c] : c \in {d \in 1..Len(headers) :
                            toLowerCase(headers[d]) = toLowerCase(tok)}}

(* The 0-based column index of the letters of a coordinate *)
IndexOfLetters(tok) == columnToIndex(extractColumnFromCoordinate(tok)[1])

(* C21: for a coordinate - a bare column or a cell reference, any case -
   whose letters have 0-based column index k, resolveColumnIdentifier
   returns headers[k] if k < |headers| and null otherwise; for a token
   that is no coordinate it returns the header equal to the token ignoring
   case, or null when there is none. *)
C21_ResolvesByIndexOrByName ==
    \A n \in 1..Len(answer) :
        answer[n].op = "resolveColumnIdentifier" =>
            IF isCoordinate(answer[n].of)
            THEN answer[n].value =
                    IF IndexOfLetters(answer[n].of) < Len(answer[n].headers)
                    THEN <<answer[n].headers[IndexOfLetters(answer[n].of) + 1]>>
                    ELSE <<>>
            ELSE IF HeadersNamed(answer[n].of, answer[n].headers) = {}
            THEN answer[n].value = <<>>
            ELSE /\ answer[n].value # <<>>
                 /\ answer[n].value[1] \in HeadersNamed(answer[n].of, answer[n].headers)


(* C24: a unique-column or value-column token that equals a header name
   of its table ignoring case is resolved to the column of such a header,
   for every header name, names of one to three letters included. *)
C24_HeaderNameResolvesToItsColumn ==
    \A n \in 1..Len(answer) :
        (answer[n].op = "resolveColumn"
         /\ HeadersNamed(answer[n].of, answer[n].headers) # {}) =>
            /\ answer[n].value # <<>>
            /\ answer[n].value[1] \in 0..(Len(answer[n].headers) - 1)
            /\ answer[n].headers[answer[n].value[1] + 1]
                  \in HeadersNamed(answer[n].of, answer[n].headers)


----------------------------------------------------------------------------
(* Properties of spreadsheet_transfer_data *)

(* The handler has run to its return *)
Returned == hpc = "returned"

(* C11: if the oracle call of any chunk fails, matchValues rejects and the
   handler fails as a whole: nothing of the chunks that completed, in the
   same or an earlier wave, is returned by matchValues or by the handler,
   nothing is planned and no cell write is issued. *)
C11_FailureVoidsTheOperation ==
    (\E k \in DOMAIN status : status[k] = "failed") =>
        /\ pc = "rejected"
        /\ returned = <<>>
        /\ hpc \in {"matching", "failed"}
        /\ mappings = <<>>
        /\ updates = <<>>
        /\ written = <<>>
        /\ result = <<>>

(* The handler has failed after a chunk of the second wave failed, with
   matches of the first wave merged and a chunk of the second wave
   resolved with a match. *)
C11_Witness ==
    /\ hpc = "failed"
    /\ i > 0
    /\ allMatches # <<>>
    /\ \E k \in DOMAIN status : status[k] = "failed"
    /\ \E k \in DOMAIN status : /\ k >= i
                                /\ status[k] = "resolved"
                                /\ results[k].matches # <<>>

(* The matches matchValues returned to the handler *)
Matches == returned[1].matches

(* Mapping n is the one valuesToTransfer holds for its master header *)
IsLastOfHeader(n) == LastMappingOf(locals.resolved, locals.resolved[n].masterHeader[1]) = n

(* The update list a run with dryRun = false stages from the same tables
   and the same matches *)
UpdatesOfRealRun ==
    PlanUpdates(variant, FALSE, Matches, locals.resolved, locals.cache,
                locals.sourceData, locals.sourceStartRow, locals.masterRowOffset)

(* The update of match k (1-based) and mapping n (1-based) in a list of one
   update per pair *)
PairIndex(k, n) == (k - 1) * Len(locals.resolved) + n

(* C13: a dry run stages nothing for the Table Writer and never calls it,
   and returns the full plan: one mappings entry per match, with the
   match's masterValue, sourceValue and confidence and, under every mapped
   master column, the value a run with dryRun = false stages for that
   match and column. *)
C13_DryRunPlansWithoutWriting ==
    (Returned /\ input.options.dryRun) =>
        /\ updates = <<>>
        /\ written = <<>>
        /\ result[1].dryRun
        /\ Len(result[1].mappings) = Len(Matches)
        /\ \A k \in 1..Len(Matches) :
              /\ result[1].mappings[k].masterValue = Matches[k].masterValue
              /\ result[1].mappings[k].sourceValue = Matches[k].sourceValue
              /\ result[1].mappings[k].confidence = Matches[k].confidence
              /\ DOMAIN result[1].mappings[k].valuesToTransfer =
                    {locals.resolved[n].masterHeader[1] : n \in 1..Len(locals.resolved)}
              /\ \A n \in 1..Len(locals.resolved) :
                    IsLastOfHeader(n) =>
                        result[1].mappings[k].valuesToTransfer[
                            locals.resolved[n].masterHeader[1]]
                        = UpdatesOfRealRun[PairIndex(k, n)].value

(* A dry run has returned a plan of two matches with a value to transfer *)
C13_Witness ==
    /\ Returned
    /\ input.options.dryRun
    /\ written = <<>>
    /\ Len(result[1].mappings) >= 2
    /\ \E k \in 1..Len(Matches) :
          \E h \in DOMAIN result[1].mappings[k].valuesToTransfer :
              result[1].mappings[k].valuesToTransfer[h] \notin {Null, ""}

(* The handler is past its planning loops *)
Planned == hpc \in {"planned", "written", "returned"}

(* The master column mapping n resolves to *)
ResolvedMasterColumn(n) ==
    ResolveColumn(input.valueColumns[n].masterColumn, locals.masterData.headers)[1]

(* C14: without dryRun the update list holds exactly one CellUpdate for
   each (match, mapping) pair, |updates| = |matches| x |valueColumns|; the
   update of a pair has the match's masterRowIndex as rowIndex and the
   mapping's resolved master column as columnName; and that list is what
   the Table Writer is handed. *)
C14_OneUpdatePerPair ==
    (Planned /\ ~input.options.dryRun) =>
        /\ Len(updates) = Len(Matches) * Len(input.valueColumns)
        /\ \A k \in 1..Len(Matches) : \A n \in 1..Len(input.valueColumns) :
              /\ updates[PairIndex(k, n)].rowIndex = Matches[k].masterRowIndex
              /\ updates[PairIndex(k, n)].columnName = ResolvedMasterColumn(n)
        /\ written # <<>> => written[1].updates = updates

(* The Table Writer was handed the four updates of two matches and two
   mappings, one of them with no value *)
C14_Witness ==
    /\ hpc = "written"
    /\ Len(Matches) = 2
    /\ Len(input.valueColumns) = 2
    /\ Len(written[1].updates) = 4
    /\ \E n \in 1..4 : written[1].updates[n].value = Null

(* The 1-based sheet column a resolved source column names: the column of
   the coordinate, or the last column with that header text *)
SourceColumnOf(rm) ==
    IF rm.sourceIsCoordinate
    THEN columnToIndex(extractColumnFromCoordinate(rm.sourceHeader[1])[1]) + 1
    ELSE Greatest({c \in 1..Len(locals.sourceData.headers) :
                      locals.sourceData.headers[c] = rm.sourceHeader[1]})

(* The sheet row the planner addresses for a match and a mapping; 0 when it
   addresses none: a row before the start of the cached column, or the
   first definition's read of the column object *)
RowAddressed(match, rm, cacheData) ==
    IF variant = "matcher_ts"
    THEN IF rm.sourceIsCoordinate THEN 0
         ELSE locals.sourceData.headerRowIndex + 2 + match.sourceRowIndex
    ELSE IF rm.sourceIsCoordinate
         THEN IF match.sourceRowIndex < cacheData.startRow THEN 0
              ELSE match.sourceRowIndex
         ELSE IF match.sourceRowIndex < locals.sourceStartRow THEN 0
              ELSE locals.sourceData.headerRowIndex + 2
                   + (match.sourceRowIndex - locals.sourceStartRow)

(* The text of the source cell the planner addresses for match k and
   mapping n, "" for an empty cell and where there is no such cell *)
CellAddressed(k, n) ==
    Cell(sourceSheet, RowAddressed(Matches[k], locals.resolved[n], locals.cache[n]),
         SourceColumnOf(locals.resolved[n]))

(* C15: when the mapped source column has no value at the matched source
   row, the pair is still planned, with value null: valuesToTransfer lists
   the master column with null and, without dryRun, the pair's update has
   value null. *)
C15_MissingValueIsNull ==
    Planned =>
        \A k \in 1..Len(Matches) : \A n \in 1..Len(locals.resolved) :
            /\ locals.resolved[n].masterHeader[1] \in DOMAIN mappings[k].valuesToTransfer
            /\ (CellAddressed(k, n) = "" /\ IsLastOfHeader(n)) =>
                  mappings[k].valuesToTransfer[locals.resolved[n].masterHeader[1]] = Null
            /\ (CellAddressed(k, n) = "" /\ ~input.options.dryRun) =>
                  /\ Len(updates) >= PairIndex(k, n)
                  /\ updates[PairIndex(k, n)].value = Null

(* The sheet row at which the source key of a match was read: its
   sourceRowIndex in the second definition; in the first, whose
   sourceRowIndex counts the data rows from 0, the row of that data row *)
SourceKeyRow(match) ==
    IF variant = "matcher_ts"
    THEN locals.sourceData.headerRowIndex + 2 + match.sourceRowIndex
    ELSE match.sourceRowIndex

(* The text of a cell value, '' for null *)
TextOf(value) == IF value = Null THEN "" ELSE value

(* The content of the mapped source column at sheet row r: the cell of
   that row, '' above the start row of a column given by coordinate *)
MappedColumnAt(rm, r) ==
    IF rm.sourceIsCoordinate /\ r < extractRowFromCoordinate(rm.sourceHeader[1])[1]
    THEN ""
    ELSE Cell(sourceSheet, r, SourceColumnOf(rm))

(* C16: for every match and every mapping, the value staged for transfer
   is the content of the mapped source column at the sheet row at which
   the matched source key was read, whatever the reference styles of the
   source key column and of the source value column are. *)
C16_StagedFromTheKeyRow ==
    Planned =>
        \A k \in 1..Len(Matches) : \A n \in 1..Len(locals.resolved) :
            /\ IsLastOfHeader(n) =>
                  TextOf(mappings[k].valuesToTransfer[locals.resolved[n].masterHeader[1]])
                  = MappedColumnAt(locals.resolved[n], SourceKeyRow(Matches[k]))
            /\ ~input.options.dryRun =>
                  TextOf(updates[PairIndex(k, n)].value)
                  = MappedColumnAt(locals.resolved[n], SourceKeyRow(Matches[k]))

(* The 1-based sheet column of the master key column *)
MasterKeyColumn ==
    IF isCoordinate(input.masterUniqueColumn)
    THEN columnToIndex(extractColumnFromCoordinate(input.masterUniqueColumn)[1]) + 1
    ELSE Least({c \in 1..Len(locals.masterData.headers) :
                   toLowerCase(locals.masterData.headers[c])
                   = toLowerCase(input.masterUniqueColumn)})

(* The sheet rows the handler wrote to *)
RowsWritten ==
    IF written = <<>> \/ written[1].batchUpdate = <<>> THEN {}
    ELSE {written[1].batchUpdate[1][d].row : d \in 1..Len(written[1].batchUpdate[1])}

(* The matched master key is what the master key column holds at row r *)
IsKeyRowOf(match, r) == Cell(masterSheet, r, MasterKeyColumn) = match.masterValue

(* C17: every cell write of the handler targets the sheet row at which a
   matched master key was read, and the key row of every match is written:
   banner rows above the header row, the start row of a key column given
   by coordinate and empty key cells above a key do not shift the row.
   For both definitions of the handler. *)
C17_WritesAtTheKeyRow ==
    written # <<>> =>
        /\ \A r \in RowsWritten : \E k \in 1..Len(Matches) : IsKeyRowOf(Matches[k], r)
        /\ \A k \in 1..Len(Matches) : \E r \in RowsWritten : IsKeyRowOf(Matches[k], r)

(* The row ranges of the batchUpdate request the handler issued *)
RangesWritten ==
    IF written = <<>> \/ written[1].batchUpdate = <<>> THEN <<>>
    ELSE written[1].batchUpdate[1]

(* The 0-based column of every update handed to the Table Writer *)
ColumnsWritten == ColumnIndexes(written[1].updates, locals.masterData.headers)

(* Update n targets the k-th cell of the row range rg *)
Targets(n, rg, k) ==
    /\ ColumnsWritten[n] = columnToIndex(rg.startCol) + k - 1
    /\ written[1].baseRowIndex + written[1].updates[n].rowIndex = rg.row

(* What a cell shows after a value was sent to it: nothing for null *)
Shown(value) == IF value = Null THEN "" ELSE value

(* C27: updateSpreadsheet changes only the cells its updates name: every
   value it sends goes to a (row, column) that some update targets, so the
   columns between two updated columns of a row are sent nothing, and every
   update whose column resolves has its value sent to its cell. *)
C27_WritesOnlyTheUpdatedCells ==
    written # <<>> =>
        /\ \A d \in 1..Len(RangesWritten) : \A k \in 1..Len(RangesWritten[d].values) :
              \E n \in 1..Len(written[1].updates) : Targets(n, RangesWritten[d], k)
        /\ \A n \in 1..Len(written[1].updates) :
              ColumnsWritten[n] # -1 =>
                  \E d \in 1..Len(RangesWritten) :
                      \E k \in 1..Len(RangesWritten[d].values) :
                          /\ Targets(n, RangesWritten[d], k)
                          /\ RangesWritten[d].values[k] = Shown(written[1].updates[n].value)

(* The update lists of the handler address the same master cell at the
   positions m and n *)
SameCell(m, n) ==
    /\ updates[m].rowIndex = updates[n].rowIndex
    /\ ColumnIndexOf(updates[m].columnName, locals.masterData.headers)
          = ColumnIndexOf(updates[n].columnName, locals.masterData.headers)

(* C28: the update list of one transfer is free of conflicts: no two of its
   CellUpdates address the same master cell (the same rowIndex and the same
   column), also when several source records are matched to one master key
   or two mappings name one master column. *)
C28_UpdatesAreConflictFree ==
    Planned =>
        \A m, n \in 1..Len(updates) : SameCell(m, n) => m = n

(* The token is a coordinate whose column lies at or beyond the header
   count of its table *)
BeyondHeaders(columnId, sheet) ==
    /\ isCoordinate(columnId)
    /\ columnToIndex(extractColumnFromCoordinate(columnId)[1])
          >= Len(readSpreadsheet(sheet)[1].headers)

(* Some unique-column or value-column token of the call is such a token *)
SomeTokenBeyondHeaders ==
    \/ BeyondHeaders(input.masterUniqueColumn, masterSheet)
    \/ BeyondHeaders(input.sourceUniqueColumn, sourceSheet)
    \/ \E n \in 1..Len(input.valueColumns) :
          \/ BeyondHeaders(input.valueColumns[n].masterColumn, masterSheet)
          \/ BeyondHeaders(input.valueColumns[n].sourceColumn, sourceSheet)

(* C22: a unique-column or value-column token that is a coordinate whose
   column index is at or beyond the header count of its table makes the
   operation fail: the handler gets no further than its failure, no oracle
   call is issued and no cell is written. *)
C22_BeyondHeadersFails ==
    SomeTokenBeyondHeaders =>
        /\ hpc \in {"called", "failed"}
        /\ sent = <<>>
        /\ written = <<>>

(* C23: every table read of the handler - readSpreadsheet, and
   readColumnByCoordinate for key and value columns - is issued before the
   first oracle call: no step issues a table read once an oracle call has
   been issued. *)
C23_ReadsBeforeOracleCalls == [][reads' # reads => sent = <<>>]_vars

====
